---- MODULE Spec2Model ----
(***************************************************************************)
(* Verification model of the workbook exporter scripts under src/scripts:  *)
(*   MLB_Exporter, NFL_Exporter, NASCAR_Exporter, NFL_Showdown_Exporter,   *)
(*   MLB_DailyIDsAndXwalk, NFL_WeeklyIdsAndXwalk, NFL_Showdown_SiteIDs.    *)
(*                                                                         *)
(* Spec         one invocation of main() of one script: argument checks,   *)
(*              staging, config load, the export steps, meta, cleanup.     *)
(* SpecDedup    one call of a header de-duplication function.              *)
(* SpecRecords  one task from worksheet cells to the JSON records.         *)
(* SpecMerge    the projections merge, replayed on two disks.              *)
(* SpecCheat    one call of run_cheatsheets on a sheet of title blocks.    *)
(* SpecXwalk    run_name_xwalk matching one projection row.                *)
(* SpecMeta     NFL_Exporter main feeding and flushing SingleMeta.         *)
(* SpecMetaDirs MLB_Exporter main marking directories for meta.json.       *)
(* SpecMergeProj run_merge_projections on one pair of source files.        *)
(* SpecSpan     the column windows of the titles of a gameboard header row.*)
(* SpecBoard    the gameboard scan of the rows beneath each matchup title. *)
(* SpecHdr      the header row chosen for a cheat-sheet block.             *)
(* SpecTime     _to_12h on one Time value.                                 *)
(* SpecPj       the two merges into projections.json, record by record.    *)
(* SpecAw       _atomic_write_json, step by step.                          *)
(* SpecSl       the salary-sheet readers of the IDs scripts.               *)
(***************************************************************************)
EXTENDS Integers, Sequences, FiniteSets, TLC

\* ------------------------------------------------------------------------
\* Bounds
\* ------------------------------------------------------------------------
\* number of entries of the config's "tasks" array
MaxTasks == 2

\* ------------------------------------------------------------------------
\* The scripts and the steps main() runs, in source order
\* ------------------------------------------------------------------------
MLB     == "MLB_Exporter"
NFL     == "NFL_Exporter"
NASCAR  == "NASCAR_Exporter"
SHOW    == "NFL_Showdown_Exporter"
MLBIDS  == "MLB_DailyIDsAndXwalk"
NFLIDS  == "NFL_WeeklyIdsAndXwalk"
SHOWIDS == "NFL_Showdown_SiteIDs"

Scripts   == {MLB, NFL, NASCAR, SHOW, MLBIDS, NFLIDS, SHOWIDS}
Exporters == {MLB, NFL, NASCAR, SHOW}
IdScripts == {MLBIDS, NFLIDS}

StepsOf(s) ==
  CASE s = MLB     -> <<"tasks", "cheatsheets", "matchups">>
    [] s = NFL     -> <<"tasks", "cheatsheets", "player_pool", "gameboard",
                        "kickoff_map", "salary_merge">>
    [] s = NASCAR  -> <<"tasks", "cheatsheets", "site_ids", "h2h_matrix",
                        "finish_distribution">>
    [] s = SHOW    -> <<"tasks", "cheatsheets", "gameboard", "site_ids", "merge">>
    [] s = MLBIDS  -> <<"site_ids", "name_xwalk", "merge_projections">>
    [] s = NFLIDS  -> <<"site_ids", "name_xwalk">>
    [] s = SHOWIDS -> <<"build_site_ids">>

StepNames(s) == {StepsOf(s)[i] : i \in 1..Len(StepsOf(s))}

\* the scripts that call _stage_copy_for_read before reading
Stages(s) == s # SHOWIDS

\* the scripts whose main writes meta after the steps
HasMeta(s) == s \in {MLB, NFL}

\* the path main hands to the functions that open the workbook
PathGiven(s) == IF s = SHOWIDS THEN "source" ELSE "staged"

\* ------------------------------------------------------------------------
\* Outcomes of one call of a step function.
\*   loads   workbook opens that succeeded during the call
\*   leak    handles opened during the call and still open when it returns
\*   wrote   output files written during the call
\*   raised  the call ended by raising an Exception
\* ------------------------------------------------------------------------
O(l, k, w, r) == [loads |-> l, leak |-> k, wrote |-> w, raised |-> r]

Skip == O(0, 0, 0, FALSE)
Fail == O(0, 0, 0, TRUE)

\* A, and when A returned normally, B
Then(A, B) ==
  {a \in A : a.raised} \cup
  {O(a.loads + b.loads, a.leak + b.leak, a.wrote + b.wrote, b.raised) :
      a \in {x \in A : ~x.raised}, b \in B}

\* try: A  except Exception: print(...)
Catch(A) == {O(a.loads, a.leak, a.wrote, FALSE) : a \in A}

\* wb = load_workbook(path); try: body finally: wb.close()
Guarded(body) == {Fail} \cup {O(1 + b.loads, b.leak, b.wrote, b.raised) : b \in body}

\* a body that reads cells and either returns or raises
ReadBody == {Skip, Fail}
\* a body that reads cells, then returns early, raises, or writes one file
ExportBody == {Skip, Fail, O(0, 0, 1, FALSE)}


\* ------------------------------------------------------------------------
\* The step functions: what one call can do to the workbook and the disk
\* ------------------------------------------------------------------------
\* read_literal_table: load_workbook, try: read the table, finally: wb.close()
read_literal_table == Guarded(ReadBody)

\* NASCAR read_with_header_and_start: pd.read_excel opens and closes the file
read_with_header_and_start == Guarded(ReadBody)

\* NFL_WeeklyIdsAndXwalk._salary_read_sheet: load, try ... finally close
salary_read_sheet_path == Guarded(ReadBody)

\* export_one: the csv, the json, both or neither; a write may fail
export_one == {Skip, O(0, 0, 1, FALSE), O(0, 0, 2, FALSE), Fail, O(0, 0, 1, TRUE)}

\* the column mapping, reorder and filter calls between read and export
Reshape == {Skip, Fail}

run_task(s) ==
  CASE s \in {MLB, NFL} ->
         {Skip} \cup Then(read_literal_table, Then(Reshape, {Skip} \cup export_one))
    [] s = NASCAR ->
         {Skip} \cup Then(read_with_header_and_start, Then(Reshape, {Skip} \cup export_one))
    [] s = SHOW ->
         Then(read_literal_table, Then(Reshape, export_one))

\* MLB run_cheatsheets opens wb_data and wb_form BEFORE its try block
run_cheatsheets_mlb ==
  {Skip, Fail, O(1, 1, 0, TRUE)} \cup
  {O(2, 0, b.wrote, b.raised) : b \in ExportBody}

run_cheatsheets(s) ==
  IF s = MLB THEN run_cheatsheets_mlb ELSE {Skip} \cup Guarded(ExportBody)

\* MLB run_matchups, NFL / Showdown run_gameboard
run_gameboard == {Skip} \cup Guarded(ExportBody)

\* NFL _build_kickoff_map_from_workbook: holds its own handle while it calls
\* read_literal_table, which opens the workbook again
build_kickoff_map_from_workbook ==
  Guarded({Skip, Fail} \cup Then(read_literal_table, ReadBody))

enrich_player_pool_json ==
  {Skip, Fail} \cup Then(build_kickoff_map_from_workbook, {O(0, 0, 1, FALSE), Fail})

run_optional_player_pool ==
  {Skip} \cup Then(run_cheatsheets(NFL), {Skip} \cup Catch(enrich_player_pool_json))

\* the two merges read and rewrite projections.json; no workbook is opened
merge_salaries_into_projections == ExportBody
merge_showdown_into_projections == ExportBody

read_site_ids_showdown ==
  {Skip} \cup Then(Guarded(ReadBody), {O(0, 0, 1, FALSE), Fail})

\* NASCAR
run_site_ids_nascar       == {Skip} \cup Guarded(ExportBody)
run_h2h_matrix            == Then(read_with_header_and_start, ExportBody)
run_finish_distribution   == Then(read_with_header_and_start, ExportBody)

\* variant: the step opens the workbook itself instead of taking main's
run_site_ids_reload == {Skip} \cup Guarded(ExportBody)

\* MLB_DailyIDsAndXwalk: the steps take the workbook main opened
run_site_ids_wb       == ExportBody
run_name_xwalk_wb     == ExportBody
run_merge_projections == ExportBody

\* NFL_WeeklyIdsAndXwalk: every helper opens the staged workbook itself
run_site_ids_path ==
  {Skip} \cup Then(salary_read_sheet_path,
                   Then(salary_read_sheet_path, {O(0, 0, 1, FALSE), Fail}))
run_name_xwalk_path ==
  {Skip} \cup Then(read_literal_table,
                   Then(salary_read_sheet_path,
                        Then(salary_read_sheet_path, {O(0, 0, 1, FALSE), Fail})))

\* NFL_Showdown_SiteIDs.build_site_ids
build_site_ids == Then(Guarded(ReadBody), {O(0, 0, 1, FALSE), Fail})

StepOutcomes(s, st) ==
  CASE st = "tasks"               -> run_task(s)
    [] st = "cheatsheets"         -> run_cheatsheets(s)
    [] st = "matchups"            -> run_gameboard
    [] st = "gameboard"           -> run_gameboard
    [] st = "player_pool"         -> run_optional_player_pool
    [] st = "kickoff_map"         -> build_kickoff_map_from_workbook
    [] st = "salary_merge"        -> merge_salaries_into_projections
    [] st = "merge"               -> merge_showdown_into_projections
    [] st = "h2h_matrix"          -> run_h2h_matrix
    [] st = "finish_distribution" -> run_finish_distribution
    [] st = "merge_projections"   -> run_merge_projections
    [] st = "build_site_ids"      -> build_site_ids
    [] st = "site_ids"            ->
         (CASE s = NASCAR -> run_site_ids_nascar
            [] s = SHOW   -> read_site_ids_showdown
            [] s = MLBIDS -> run_site_ids_wb
            [] s = NFLIDS -> run_site_ids_path)
    [] st = "name_xwalk"          ->
         (IF s = MLBIDS THEN run_name_xwalk_wb ELSE run_name_xwalk_path)

\* variant: the call of run_matchups is not wrapped
Caught_unwrapped(s, st) == s \in Exporters /\ ~(s = MLB /\ st = "matchups")

\* main wraps the call of the step in try / except Exception
Caught(s, st) == s \in Exporters

\* variant: the --only-* flags are ignored
StepSelected_all(a, st) == TRUE

\* the --only-* flags of the two IDs scripts
StepSelected(a, st) ==
  CASE st = "site_ids"   /\ a.script \in IdScripts -> ~a.only_xwalk
    [] st = "name_xwalk" /\ a.script \in IdScripts -> ~a.only_site_ids
    [] OTHER -> TRUE

\* variant: the config file is not checked before staging
ArgsFatal_noconfig(a) ==
  CASE a.script \in {MLB, NFL, SHOW, MLBIDS, NFLIDS} ->
         (~a.argPublic /\ ~a.rootPublic) \/ ~a.xlsm
    [] a.script = NASCAR ->
         ~a.xlsm \/ ~a.argPublic \/ ~a.config \/ ~a.cfgjson
    [] a.script = SHOWIDS ->
         ~a.xlsm \/ ~a.argPublic

\* the conditions under which main calls sys.exit(1) before staging
ArgsFatal(a) ==
  CASE a.script \in {MLB, NFL, SHOW, MLBIDS, NFLIDS} ->
         (~a.argPublic /\ ~a.rootPublic) \/ ~a.xlsm \/ ~a.config
    [] a.script = NASCAR ->
         ~a.xlsm \/ ~a.argPublic \/ ~a.config \/ ~a.cfgjson
    [] a.script = SHOWIDS ->
         ~a.xlsm \/ ~a.argPublic

\* variant: the cleanup leaves the directory in place
rmtree_skipped(exists) == exists

\* shutil.rmtree(temp_dir, ignore_errors=True): the directory is gone
rmtree(exists) == FALSE


\* ------------------------------------------------------------------------
\* Header de-duplication: dedup (MLB_Exporter, NFL_Exporter,
\* NFL_Showdown_Exporter, NFL_WeeklyIdsAndXwalk, NASCAR_Exporter) and
\* _dedup_headers (MLB_DailyIDsAndXwalk).
\* A string is the sequence of its characters; a raw header value is None
\* or a string.
\* ------------------------------------------------------------------------
\* columns of a header row
MaxCols == 3

NoneVal   == [none |-> TRUE,  text |-> <<>>]
Str(t)    == [none |-> FALSE, text |-> t]

DedupVariants == {"dedup", "dedup_weekly", "dedup_nascar", "_dedup_headers"}

Digits == <<"0", "1", "2", "3", "4", "5", "6", "7", "8", "9">>
IsDigit(c) == \E d \in 1..10 : Digits[d] = c

\* str(n) for a natural number n
RECURSIVE IntStr(_)
IntStr(n) == IF n < 10 THEN <<Digits[n + 1]>>
                       ELSE IntStr(n \div 10) \o <<Digits[(n % 10) + 1]>>

\* str.lower() on the characters that occur
LowerChar(c) ==
  CASE c = "A" -> "a"
    [] c = "N" -> "n"
    [] c = "U" -> "u"
    [] c = "T" -> "t"
    [] c = "P" -> "p"
    [] c = "B" -> "b"
    [] OTHER   -> c
Lower(t) == [i \in 1..Len(t) |-> LowerChar(t[i])]

\* str.strip()
RECURSIVE LStrip(_)
LStrip(t) == IF t # <<>> /\ Head(t) = " " THEN LStrip(Tail(t)) ELSE t
RECURSIVE RStrip(_)
RStrip(t) == IF t # <<>> /\ t[Len(t)] = " " THEN RStrip(SubSeq(t, 1, Len(t) - 1)) ELSE t
Strip(t) == RStrip(LStrip(t))

StartsWith(t, p) == Len(t) >= Len(p) /\ SubSeq(t, 1, Len(p)) = p

\* NASCAR dedup: a text that float() parses to a whole number is replaced by
\* str(int(round(f))): "1.0" and "01" both become "1"
DotAt(t) == IF \E i \in 1..Len(t) : t[i] = "."
              THEN CHOOSE i \in 1..Len(t) : t[i] = "." /\ \A j \in 1..(i - 1) : t[j] # "."
              ELSE Len(t) + 1
RECURSIVE DropZeros(_)
DropZeros(t) == IF Len(t) > 1 /\ Head(t) = "0" THEN DropZeros(Tail(t)) ELSE t
FloatNorm(t) ==
  LET p    == DotAt(t)
      ip   == SubSeq(t, 1, p - 1)
      fr   == SubSeq(t, p + 1, Len(t))
      isF  == /\ Len(ip) + Len(fr) > 0
              /\ \A i \in 1..Len(ip) : IsDigit(ip[i])
              /\ \A i \in 1..Len(fr) : IsDigit(fr[i])
      whole == \A i \in 1..Len(fr) : fr[i] = "0"
  IN  IF isF /\ whole THEN DropZeros(IF ip = <<>> THEN <<"0">> ELSE ip) ELSE t

\* the text the loop works with for raw value r
HeaderText(r, v) ==
  LET t == IF r.none THEN <<>> ELSE Strip(r.text)
  IN  IF v = "dedup_nascar" THEN FloatNorm(t) ELSE t

\* the test that replaces a header by col_<i+1>
IsPlaceholder(t, v) ==
  \/ t = <<>>
  \/ v \in {"dedup", "dedup_nascar"} /\ Lower(t) \in {<<"n", "a", "n">>, <<"n", "a", "t">>}
  \/ StartsWith(Lower(t), <<"u", "n", "n", "a", "m", "e", "d">>)

\* the separator between a repeated name and its counter
Sep(v) == IF v = "_dedup_headers" THEN <<"_", "_">> ELSE <<"_">>

\* the for loop, from 1-based position i with the dict seen and the list out
RECURSIVE DedupLoop(_, _, _, _, _)
DedupLoop(names, i, seen, out, v) ==
  IF i > Len(names) THEN out
  ELSE LET t0  == HeaderText(names[i], v)
           t   == IF IsPlaceholder(t0, v) THEN <<"c", "o", "l", "_">> \o IntStr(i) ELSE t0
           hit == t \in DOMAIN seen
           n   == IF hit THEN seen[t] + 1 ELSE 0
           key == IF hit THEN t \o Sep(v) \o IntStr(n) ELSE t
           seen2 == [k \in (DOMAIN seen) \cup {t} |-> IF k = t THEN n ELSE seen[k]]
       IN  DedupLoop(names, i + 1, seen2, Append(out, key), v)

dedup(names, v) == DedupLoop(names, 1, [k \in {} |-> 0], <<>>, v)

\* header values a sheet can hold in its header row
HeaderVals ==
  {NoneVal} \cup
  { Str(t) : t \in { <<>>, <<" ", "a">>, <<"a">>, <<"A">>,
                     <<"a", "_", "1">>, <<"a", "_", "_", "1">>,
                     <<"c", "o", "l", "_", "2">>, <<"N", "a", "N">>,
                     <<"U", "n", "n", "a", "m", "e", "d">>,
                     <<"1">>, <<"1", ".", "0">> } }

HeaderRows == UNION { [1..n -> HeaderVals] : n \in 0..MaxCols }

VARIABLES
  dd_variant,   \* which of the dedup functions is called
  dd_names,     \* its argument
  dd_out,       \* its result
  dd_done       \* the call has returned

dedupVars == <<dd_variant, dd_names, dd_out, dd_done>>

DedupInit ==
  /\ dd_variant \in DedupVariants
  /\ dd_names \in HeaderRows
  /\ dd_out = <<>>
  /\ dd_done = FALSE

DedupIdle ==
  /\ dd_variant = "dedup"
  /\ dd_names = <<>>
  /\ dd_out = <<>>
  /\ dd_done = FALSE

\* ------------------------------------------------------------------------
\* State of one invocation of main()
\* ------------------------------------------------------------------------
VARIABLES
  args,         \* the script and what its command line points at
  pc,           \* position in main: start, stage, config, steps, meta,
                \* close, finally, end
  stepIdx,      \* index into StepsOf(args.script) while pc = "steps"
  tasksLeft,    \* entries of cfg["tasks"] not yet run
  pending,      \* exception in flight towards main's finally block
  outcome,      \* running, normal, exit1, uncaught
  failedAt,     \* where the run was ended by sys.exit or an uncaught raise
  staged,       \* _stage_copy_for_read returned
  tempExists,   \* the mkdtemp directory is on disk
  openHandles,  \* workbook handles opened and not closed
  loads,        \* successful load_workbook / ExcelFile / read_excel opens
  readPaths,    \* which files were opened to read cells
  reached,      \* steps whose call main reached
  raisedSteps,  \* steps whose call raised
  written,      \* output files written by the steps
  metaWritten   \* meta.json files written

runVars == <<args, pc, stepIdx, tasksLeft, pending, outcome, failedAt, staged,
             tempExists, openHandles, loads, readPaths, reached, raisedSteps,
             written, metaWritten>>

Args == [script : Scripts, xlsm : BOOLEAN, config : BOOLEAN, cfgjson : BOOLEAN,
         argPublic : BOOLEAN, rootPublic : BOOLEAN,
         only_site_ids : BOOLEAN, only_xwalk : BOOLEAN]

\* argument combinations that can occur: a config that parses exists, and
\* the --only-* flags exist in the two IDs scripts only
ArgsPossible(a) ==
  /\ a.cfgjson => a.config
  /\ a.script \notin IdScripts => ~a.only_site_ids /\ ~a.only_xwalk

RunInit ==
  /\ args \in {a \in Args : ArgsPossible(a)}
  /\ pc = "start"
  /\ stepIdx = 0
  /\ tasksLeft = 0
  /\ pending = "none"
  /\ outcome = "running"
  /\ failedAt = "none"
  /\ staged = FALSE
  /\ tempExists = FALSE
  /\ openHandles = 0
  /\ loads = 0
  /\ readPaths = {}
  /\ reached = {}
  /\ raisedSteps = {}
  /\ written = 0
  /\ metaWritten = 0

\* the run variables while another part of the model is exercised
RunIdle ==
  /\ args = [script |-> MLB, xlsm |-> TRUE, config |-> TRUE, cfgjson |-> TRUE,
              argPublic |-> TRUE, rootPublic |-> TRUE,
              only_site_ids |-> FALSE, only_xwalk |-> FALSE]
  /\ pc = "idle"
  /\ stepIdx = 0
  /\ tasksLeft = 0
  /\ pending = "none"
  /\ outcome = "running"
  /\ failedAt = "none"
  /\ staged = FALSE
  /\ tempExists = FALSE
  /\ openHandles = 0
  /\ loads = 0
  /\ readPaths = {}
  /\ reached = {}
  /\ raisedSteps = {}
  /\ written = 0
  /\ metaWritten = 0

\* ------------------------------------------------------------------------
\* From worksheet cells to the records of a task's JSON file
\* ------------------------------------------------------------------------
\* number of data rows of the sheet
MaxRecRows == 3

\* the sheet's columns; their headers are distinct and not blank
RecCols == {"A", "B"}

\* a value: of a cell as openpyxl gives it (none, str, num), of a DataFrame
\* cell (nan, str, num), of a JSON record (null, str, num)
Val(k, t, n) == [kind |-> k, text |-> t, num |-> n]
CellNone == Val("none", <<>>, 0)
NaN      == Val("nan", <<>>, 0)
JNull    == Val("null", <<>>, 0)
VStr(t)  == Val("str", t, 0)
VNum(n)  == Val("num", <<>>, n)

CellVals == {CellNone, VStr(<<>>), VStr(<<" ", "x">>), VNum(1)}

\* a blank or empty source cell
IsBlankCell(c) == c = CellNone \/ c = VStr(<<>>)

Sheets == UNION { [1..n -> [RecCols -> CellVals]] : n \in 1..MaxRecRows }

\* _format_cell for values without a date or percent format
format_cell(c) ==
  IF c.kind = "none" THEN <<>>
  ELSE IF c.kind = "num" THEN IntStr(c.num)
  ELSE Strip(c.text)

\* the row loop of read_literal_table from sheet row r: all-blank rows are
\* skipped, the second blank row in a row ends the table
RECURSIVE LiteralRows(_, _, _, _)
LiteralRows(cells, r, blanks_in_a_row, out_rows) ==
  IF r > Len(cells) THEN out_rows
  ELSE LET row == [c \in RecCols |-> format_cell(cells[r][c])]
       IN  IF \A c \in RecCols : row[c] = <<>>
             THEN IF blanks_in_a_row + 1 >= 2
                    THEN out_rows
                    ELSE LiteralRows(cells, r + 1, blanks_in_a_row + 1, out_rows)
             ELSE LiteralRows(cells, r + 1, 0,
                              Append(out_rows, [src |-> r, vals |-> row]))

\* rows of a frame that are not all NaN in the columns cols
RECURSIVE DropNaRows(_, _)
DropNaRows(rows, cols) ==
  IF rows = <<>> THEN <<>>
  ELSE LET rest == DropNaRows(Tail(rows), cols)
       IN  IF \A c \in cols : Head(rows).vals[c] = NaN
             THEN rest ELSE <<Head(rows)>> \o rest

\* the frame read_literal_table returns: "" -> NaN, all-NaN rows dropped,
\* NaN -> "", then the columns that are "" in every row dropped
read_literal_table_frame(cells) ==
  LET out_rows == LiteralRows(cells, 1, 0, <<>>)
      asNaN == [i \in 1..Len(out_rows) |->
                 [src  |-> out_rows[i].src,
                  vals |-> [c \in RecCols |->
                             IF out_rows[i].vals[c] = <<>> THEN NaN
                             ELSE VStr(out_rows[i].vals[c])]]]
      kept  == DropNaRows(asNaN, RecCols)
      rows  == [i \in 1..Len(kept) |->
                 [src  |-> kept[i].src,
                  vals |-> [c \in RecCols |->
                             IF kept[i].vals[c] = NaN THEN VStr(<<>>)
                             ELSE kept[i].vals[c]]]]
  IN  [rows |-> rows,
       cols |-> {c \in RecCols : ~(\A i \in 1..Len(rows) : rows[i].vals[c] = VStr(<<>>))}]

\* pd.read_excel(header=None): a cell without a value, or with the empty
\* string, is NaN; other values are kept as they are
read_excel_value(c) == IF c.kind = "none" \/ (c.kind = "str" /\ c.text = <<>>) THEN NaN ELSE c

\* the frame NASCAR run_task works on: read_with_header_and_start, then
\* dropna(axis=1, how="all").dropna(axis=0, how="all")
read_with_header_and_start_frame(cells) ==
  LET raw  == [i \in 1..Len(cells) |->
                [src |-> i, vals |-> [c \in RecCols |-> read_excel_value(cells[i][c])]]]
      cols == {c \in RecCols : \E i \in 1..Len(raw) : raw[i].vals[c] # NaN}
  IN  [rows |-> DropNaRows(raw, cols), cols |-> cols]

\* the value of a string of digits
RECURSIVE DigitsValue(_, _)
DigitsValue(t, acc) ==
  IF t = <<>> THEN acc
  ELSE DigitsValue(Tail(t), 10 * acc + ((CHOOSE d \in 1..10 : Digits[d] = Head(t)) - 1))

\* pd.to_numeric(errors="coerce") on one value
to_numeric(v) ==
  IF v.kind = "num" THEN v
  ELSE IF v.kind = "str" /\ Strip(v.text) # <<>> /\ \A i \in 1..Len(Strip(v.text)) : IsDigit(Strip(v.text)[i])
         THEN VNum(DigitsValue(Strip(v.text), 0))
  ELSE NaN

\* df[col] = s: the column col of a frame replaced by the values s, row by row
WithColumn(frame, col, s) ==
  [frame EXCEPT !.rows = [i \in 1..Len(frame.rows) |->
     [frame.rows[i] EXCEPT !.vals[col] = s[i]]]]

HasNumber(frame, col) ==
  \E i \in 1..Len(frame.rows) : to_numeric(frame.rows[i].vals[col]) # NaN

\* format_percents: a column holding a number is scaled by 100 when none of
\* its numbers exceeds 1, and written as text "<n>.0%" or left numeric
PercentScale(frame, col) ==
  IF \A i \in 1..Len(frame.rows) :
       to_numeric(frame.rows[i].vals[col]) # NaN => to_numeric(frame.rows[i].vals[col]).num <= 1
    THEN 100 ELSE 1

PercentCell(v, scale, as_string) ==
  LET s == to_numeric(v)
  IN  IF as_string
        THEN IF s = NaN THEN VStr(<<>>)
             ELSE VStr(IntStr(s.num * scale) \o <<".", "0", "%">>)
        ELSE IF s = NaN THEN NaN ELSE VNum(s.num * scale)

RECURSIVE format_percents(_, _, _)
format_percents(frame, percent_cols, as_string) ==
  IF percent_cols = {} THEN frame
  ELSE LET col  == CHOOSE c \in percent_cols : TRUE
           rest == format_percents(frame, percent_cols \ {col}, as_string)
           s    == [i \in 1..Len(frame.rows) |->
                     PercentCell(frame.rows[i].vals[col], PercentScale(frame, col), as_string)]
       IN  IF col \notin frame.cols \/ ~HasNumber(frame, col) THEN rest
           ELSE WithColumn(rest, col, s)

\* round_numeric: a column with at least one number becomes numeric, what
\* does not parse becomes NaN (pd.NA in an Int64 column)
RECURSIVE round_numeric(_, _)
round_numeric(frame, todo) ==
  IF todo = {} THEN frame
  ELSE LET col  == CHOOSE c \in todo : TRUE
           rest == round_numeric(frame, todo \ {col})
           s    == [i \in 1..Len(frame.rows) |-> to_numeric(frame.rows[i].vals[col])]
       IN  IF ~HasNumber(frame, col) THEN rest
           ELSE WithColumn(rest, col, s)

\* df[[c for c in df.columns if c in keep_cols_src]] when the list is not empty
keep_columns(frame, keep) ==
  IF keep = {} THEN frame ELSE [frame EXCEPT !.cols = frame.cols \cap keep]

\* the frame run_task hands to export_one
run_task_frame(reader, cells, keep, percent_cols, as_string) ==
  IF reader = "read_literal_table"
    THEN keep_columns(read_literal_table_frame(cells), keep)
    ELSE LET df  == keep_columns(read_with_header_and_start_frame(cells), keep)
             pct == percent_cols \cap df.cols
         IN  round_numeric(format_percents(df, pct, as_string), df.cols \ pct)

\* DataFrame.to_json(orient="records") alone: NaN is written as null
to_json_records_nowhere(frame) ==
  [i \in 1..Len(frame.rows) |->
    [src |-> frame.rows[i].src,
     rec |-> [c \in frame.cols |->
               IF frame.rows[i].vals[c] = NaN THEN JNull ELSE frame.rows[i].vals[c]]]]

\* to_json_records: df.astype(object).where(pd.notna(df), "") and then
\* to_json(orient="records"); src is the sheet row a record came from
to_json_records(frame) ==
  [i \in 1..Len(frame.rows) |->
    [src |-> frame.rows[i].src,
     rec |-> [c \in frame.cols |->
               IF frame.rows[i].vals[c] = NaN THEN VStr(<<>>) ELSE frame.rows[i].vals[c]]]]

Readers == {"read_literal_table", "read_with_header_and_start"}

VARIABLES
  rec_reader,   \* how the script reads the sheet
  rec_cells,    \* the data rows of the sheet
  rec_json,     \* the records of the JSON file written
  rec_done      \* the task has run

recVars == <<rec_reader, rec_cells, rec_json, rec_done>>

RecInit ==
  /\ rec_reader \in Readers
  /\ rec_cells \in Sheets
  /\ rec_json = <<>>
  /\ rec_done = FALSE

RecIdle ==
  /\ rec_reader = "read_literal_table"
  /\ rec_cells = <<>>
  /\ rec_json = <<>>
  /\ rec_done = FALSE

\* ------------------------------------------------------------------------
\* The projections merge of NFL_Exporter and NFL_Showdown_Exporter, replayed
\* on two disks that differ only in what earlier runs left on them
\* ------------------------------------------------------------------------
MergeScripts == {NFL, SHOW}
Disks == {"disk1", "disk2"}

\* a field holds no value, a value of this run's workbook, or a value that an
\* earlier run wrote from another workbook
NoValue == ""
New     == "new"
Old     == "old"

\* projections.json and the salary file the merge reads (qb_data.json and its
\* siblings for NFL, site_ids.json for Showdown), for the one player they hold
NoFile == [exists |-> FALSE, val |-> NoValue, sal |-> NoValue, time |-> NoValue]
File(v, s, t) == [exists |-> TRUE, val |-> v, sal |-> s, time |-> t]

EarlierProjections == {NoFile} \cup {File(Old, s, t) : s \in {NoValue, Old}, t \in {NoValue, Old}}
EarlierSalaries    == {NoFile} \cup {File(NoValue, s, t) : s \in {NoValue, Old}, t \in {NoValue, Old}}
EarlierDisks       == [projections : EarlierProjections, salaries : EarlierSalaries]

\* what the workbook holds: the sheets the config names, a kickoff time next
\* to the salary, a kickoff time on the DK salary sheet (NFL kickoff map)
Workbooks(s) ==
  [projSheet : BOOLEAN, salSheet : BOOLEAN, salTime : {NoValue, New},
   kickoff : IF s = NFL THEN {NoValue, New} ELSE {NoValue}]

\* what the config asks for: a task that writes projections.json, a task or
\* section that writes the salary file
MergeConfigs == [projTask : BOOLEAN, salTask : BOOLEAN]

\* run_task for the projections task: the file is rewritten from the sheet;
\* a sheet that is missing raises, main catches, the file stays as it is
run_task_projections(wb, cfg, disk) ==
  IF cfg.projTask /\ wb.projSheet
    THEN [disk EXCEPT !.projections = File(New, NoValue, NoValue)]
    ELSE disk

\* the step that writes the salary file, in the same way
run_task_salaries(wb, cfg, disk) ==
  IF cfg.salTask /\ wb.salSheet
    THEN [disk EXCEPT !.salaries = File(NoValue, New, wb.salTime)]
    ELSE disk

\* _build_salary_map / the dk and fd maps: the entry of the player's key, read
\* from the salary file on disk; none when the file or its fields are missing
SalaryEntry(disk) ==
  IF disk.salaries.exists /\ (disk.salaries.sal # NoValue \/ disk.salaries.time # NoValue)
    THEN disk.salaries ELSE NoFile

\* merge_salaries_into_projections: projections.json is read from disk, the
\* salary fields are set, time only where the row has none, and it is written back
merge_salaries_rows(disk, kickoff) ==
  LET r  == disk.projections
      s  == SalaryEntry(disk)
      r1 == IF s.exists /\ s.sal # NoValue THEN [r EXCEPT !.sal = s.sal] ELSE r
      r2 == IF s.exists /\ s.time # NoValue /\ r1.time = NoValue
              THEN [r1 EXCEPT !.time = s.time] ELSE r1
      r3 == IF r2.time = NoValue /\ kickoff # NoValue
              THEN [r2 EXCEPT !.time = kickoff] ELSE r2
  IN  [disk EXCEPT !.projections = r3]

\* merge_showdown_into_projections: the same from site_ids.json, without a
\* kickoff map of its own
merge_showdown_rows(disk) ==
  LET r  == disk.projections
      s  == SalaryEntry(disk)
      r1 == IF s.exists /\ s.sal # NoValue THEN [r EXCEPT !.sal = s.sal] ELSE r
      r2 == IF r1.time = NoValue /\ s.exists /\ s.time # NoValue
              THEN [r1 EXCEPT !.time = s.time] ELSE r1
  IN  [disk EXCEPT !.projections = r2]

VARIABLES
  mg_script,    \* NFL_Exporter or NFL_Showdown_Exporter
  mg_wb,        \* the workbook of the run
  mg_cfg,       \* the config of the run
  mg_disk,      \* the output directory, on each of the two disks
  mg_wrote,     \* the files the run has written, on each disk
  mg_pc         \* position of the run: tasks, salaries, merge, done

mergeVars == <<mg_script, mg_wb, mg_cfg, mg_disk, mg_wrote, mg_pc>>

MergeInit ==
  /\ mg_script \in MergeScripts
  /\ mg_wb \in Workbooks(mg_script)
  /\ mg_cfg \in MergeConfigs
  /\ mg_disk \in [Disks -> EarlierDisks]
  /\ mg_wrote = [d \in Disks |-> {}]
  /\ mg_pc = "tasks"

MergeIdle ==
  /\ mg_script = NFL
  /\ mg_wb = [projSheet |-> FALSE, salSheet |-> FALSE, salTime |-> NoValue, kickoff |-> NoValue]
  /\ mg_cfg = [projTask |-> FALSE, salTask |-> FALSE]
  /\ mg_disk = [d \in Disks |-> [projections |-> NoFile, salaries |-> NoFile]]
  /\ mg_wrote = [d \in Disks |-> {}]
  /\ mg_pc = "idle"

\* ------------------------------------------------------------------------
\* run_cheatsheets: blocks of rows beneath the title cells of a sheet
\* ------------------------------------------------------------------------
\* number of rows of the cheat sheet (ws.max_row)
MaxSheetRows == 4

\* the sheet's columns (ws.max_column is 2)
CheatCols == {1, 2}

\* the one title the config lists under "tables", and the texts a cell shows
ConfigTitle == <<"T">>
CheatCellVals == {<<>>, <<"T">>, <<"x">>}
CheatSheets == [1..MaxSheetRows -> [CheatCols -> CheatCellVals]]

\* the cheatsheets block of the config: width of a table, limit_rows
CheatConfigs == [width : {2}, limit_rows : {1, 2}]

\* norm(): strip, and lower-case (title_match_ci is true by default)
norm(t) == Lower(Strip(t))

all_titles_norm == {norm(ConfigTitle)}

\* ws.cell(r, c) shown as text; nothing outside the used range
CheatCell(sheet, r, c) ==
  IF r \in 1..MaxSheetRows /\ c \in CheatCols THEN Strip(sheet[r][c]) ELSE <<>>

\* index[norm(title)]: the cells that hold the title
TitleLocs(sheet) ==
  {rc \in (1..MaxSheetRows) \X CheatCols : norm(sheet[rc[1]][rc[2]]) = norm(ConfigTitle)}

\* key=lambda rc: (rc[0], rc[1])
LocBefore(a, b) == a[1] < b[1] \/ (a[1] = b[1] /\ a[2] < b[2])
MinLoc(S) == CHOOSE a \in S : \A b \in S : a = b \/ LocBefore(a, b)
RECURSIVE SortLocs(_)
SortLocs(S) == IF S = {} THEN <<>> ELSE <<MinLoc(S)>> \o SortLocs(S \ {MinLoc(S)})

\* variant: every exporter walks all the cells that hold the title
Occurrences_all(s, locs) == SortLocs(locs)

\* the title cells an exporter builds a block for: MLB all of them in sorted
\* order, NFL the first one indexed, NASCAR and Showdown min(locs)
Occurrences(s, locs) ==
  IF s = MLB THEN SortLocs(locs)
  ELSE IF locs = {} THEN <<>> ELSE <<MinLoc(locs)>>

\* the columns of a block: range(start_c, min(start_c + width, n_cols + 1))
BlockCols(start_c, width) == {c \in CheatCols : start_c <= c /\ c < start_c + width}

\* labels a header row is recognised by (EXPECTED, _HEADER_KEYS)
HeaderKeys == {<<"p", "l", "a", "y", "e", "r">>, <<"t", "e", "a", "m">>,
               <<"s", "a", "l", "a", "r", "y">>}

\* MLB pick_header_row: the title row or the row below, whichever scores higher
HeaderScore(sheet, r0, cols) ==
  Cardinality({c \in cols : Lower(CheatCell(sheet, r0, c)) \in HeaderKeys})
  + (IF \E c \in cols : Lower(CheatCell(sheet, r0, c)) = <<"p", "l", "a", "y", "e", "r">>
       THEN 3 ELSE 0)
  + Cardinality({c \in cols : CheatCell(sheet, r0, c) # <<>>})

\* variant: on a tie the row below is taken
pick_header_row_tie_below(sheet, start_r, cols) ==
  IF HeaderScore(sheet, start_r + 1, cols) >= HeaderScore(sheet, start_r, cols)
    THEN start_r + 1 ELSE start_r

\* MLB pick_header_row: the later candidate only on a strictly higher score
pick_header_row(sheet, start_r, cols) ==
  IF HeaderScore(sheet, start_r + 1, cols) > HeaderScore(sheet, start_r, cols)
    THEN start_r + 1 ELSE start_r

\* NFL _maybe_shift_header_down: one row down when the first cell is the
\* title and the next row holds at least two header labels
maybe_shift_header_down(sheet, header_r, cols, start_c) ==
  IF /\ CheatCell(sheet, header_r, start_c) = Strip(ConfigTitle)
     /\ Cardinality({Lower(CheatCell(sheet, header_r + 1, c)) : c \in cols} \cap HeaderKeys) >= 2
    THEN header_r + 1 ELSE header_r

HeaderRow(s, sheet, start_r, start_c, cols) ==
  CASE s = MLB -> pick_header_row(sheet, start_r, cols)
    [] s = NFL -> maybe_shift_header_down(sheet, start_r, cols, start_c)
    [] OTHER   -> start_r

\* all(x == "" for x in display)
RowBlank(sheet, r, cols) == \A c \in cols : CheatCell(sheet, r, c) = <<>>

\* variant: the first cell of a row is not compared with the titles
FirstCellIsTitle_off(s, sheet, r, start_c) == FALSE

\* the test that ends a block at a row whose first cell is a configured title
FirstCellIsTitle(s, sheet, r, start_c) ==
  LET first == norm(CheatCell(sheet, r, start_c))
  IN  IF s = MLB THEN first # <<>> /\ first \in all_titles_norm
                 ELSE first \in all_titles_norm

\* blank rows in a row that end a block: MLB and NFL count two, NASCAR and
\* Showdown stop at the first
BlanksToStop(s) == IF s \in {MLB, NFL} THEN 2 ELSE 1

\* the while loop from row r: the sheet rows whose cells are collected
RECURSIVE CheatRows(_, _, _, _, _, _, _, _)
CheatRows(s, sheet, r, start_c, cols, blanks, rows, limit_rows) ==
  IF r > MaxSheetRows \/ Len(rows) >= limit_rows THEN rows
  ELSE IF s = MLB /\ FirstCellIsTitle(s, sheet, r, start_c) THEN rows
  ELSE IF RowBlank(sheet, r, cols)
         THEN IF blanks + 1 >= BlanksToStop(s) THEN rows
              ELSE CheatRows(s, sheet, r + 1, start_c, cols, blanks + 1, rows, limit_rows)
  ELSE IF s # MLB /\ FirstCellIsTitle(s, sheet, r, start_c) THEN rows
  ELSE CheatRows(s, sheet, r + 1, start_c, cols, 0, Append(rows, r), limit_rows)

\* the block built for the title cell loc
CheatBlock(s, sheet, loc, cfg) ==
  LET cols     == BlockCols(loc[2], cfg.width)
      header_r == HeaderRow(s, sheet, loc[1], loc[2], cols)
  IN  [start    |-> loc,
       header_r |-> header_r,
       cols     |-> cols,
       rows     |-> CheatRows(s, sheet, header_r + 1, loc[2], cols, 0, <<>>, cfg.limit_rows)]

\* NASCAR skips a table without data rows ("missing header/data rows",
\* "slice is empty"); the others write it with no rows
RECURSIVE KeepBlocks(_, _)
KeepBlocks(s, blocks) ==
  IF blocks = <<>> THEN <<>>
  ELSE IF s = NASCAR /\ Head(blocks).rows = <<>> THEN KeepBlocks(s, Tail(blocks))
  ELSE <<Head(blocks)>> \o KeepBlocks(s, Tail(blocks))

\* the blocks written under the title, in the order they are appended
cheatsheet_blocks(s, sheet, cfg) ==
  LET locs == Occurrences(s, TitleLocs(sheet))
  IN  KeepBlocks(s, [i \in 1..Len(locs) |-> CheatBlock(s, sheet, locs[i], cfg)])

VARIABLES
  cs_script,    \* the exporter whose run_cheatsheets is called
  cs_sheet,     \* the cells of the cheat sheet
  cs_cfg,       \* the cheatsheets block of the config
  cs_out,       \* the blocks written under the title
  cs_done       \* run_cheatsheets has returned

cheatVars == <<cs_script, cs_sheet, cs_cfg, cs_out, cs_done>>

CheatInit ==
  /\ cs_script \in Exporters
  /\ cs_sheet \in CheatSheets
  /\ cs_cfg \in CheatConfigs
  /\ cs_out = <<>>
  /\ cs_done = FALSE

CheatIdle ==
  /\ cs_script = MLB
  /\ cs_sheet = <<>>
  /\ cs_cfg = [width |-> 2, limit_rows |-> 1]
  /\ cs_out = <<>>
  /\ cs_done = FALSE

\* ------------------------------------------------------------------------
\* run_name_xwalk: the salary row matched to a projection row
\* ------------------------------------------------------------------------
\* number of rows of a salary sheet
MaxSalaryRows == 2

\* player names, already lower-cased: first name, last name, "jr" suffix
PlayerNames == [first : {"will", "wade"}, last : {"smith"}, jr : BOOLEAN]
TeamVals == {"", "AAA", "BBB"}
PosVals  == {"", "P"}

\* the three keys a name is looked up by
norm_name(n) == n
base_key(n)  == [n EXCEPT !.jr = FALSE]
Initial(f)   == IF f \in {"will", "wade"} THEN "w" ELSE f
fi_last(n)   == [first |-> Initial(n.first), last |-> n.last, jr |-> FALSE]
last_name(n) == n.last
NameKey(key, n) ==
  CASE key = "norm" -> norm_name(n)
    [] key = "base" -> base_key(n)
    [] key = "filast" -> fi_last(n)
XwalkKeys == <<"norm", "base", "filast">>

\* SequenceMatcher(None, base_key(a), base_key(b)).ratio() >= 0.94: among these
\* names only equal base keys are that close ("will smith" / "wade smith" 0.7)
fuzzy_close(a, b) == base_key(a) = base_key(b)

ProjRows   == [name : PlayerNames, team : TeamVals, pos : PosVals]
SalaryRow  == [name : PlayerNames, team : TeamVals, pos : PosVals]
SalaryRows == UNION { [1..n -> SalaryRow] : n \in 0..MaxSalaryRows }

NoHit == 0

\* the first index of rows that satisfies Test, or NoHit
FirstIndex(rows, ok) ==
  IF \E i \in 1..Len(rows) : ok[i]
    THEN CHOOSE i \in 1..Len(rows) : ok[i] /\ \A j \in 1..(i - 1) : ~ok[j]
    ELSE NoHit

\* MLB build_map_exact(...).get((k, team, pos)): the first row with that key,
\* team and position
ExactGet(rows, key, k, team, pos) ==
  FirstIndex(rows, [i \in 1..Len(rows) |->
    NameKey(key, rows[i].name) = k /\ rows[i].team = team /\ rows[i].pos = pos])

\* MLB build_map_keyonly(...).get(k, []): rows[0] of the rows with that key
KeyOnlyGet(rows, key, k) ==
  FirstIndex(rows, [i \in 1..Len(rows) |-> NameKey(key, rows[i].name) = k])

\* the first hit of f over the keys norm, base, filast
RECURSIVE FirstOverKeys(_, _)
FirstOverKeys(hits, i) ==
  IF i > Len(hits) THEN NoHit
  ELSE IF hits[i] # NoHit THEN hits[i] ELSE FirstOverKeys(hits, i + 1)

\* MLB try_exact_maps: (key, team, pos), (key, team, ""), (key, "", pos), key only
try_exact_maps(p, rows) ==
  LET t1 == [j \in 1..3 |-> ExactGet(rows, XwalkKeys[j], NameKey(XwalkKeys[j], p.name), p.team, p.pos)]
      t2 == [j \in 1..3 |-> ExactGet(rows, XwalkKeys[j], NameKey(XwalkKeys[j], p.name), p.team, "")]
      t3 == [j \in 1..3 |-> ExactGet(rows, XwalkKeys[j], NameKey(XwalkKeys[j], p.name), "", p.pos)]
      t4 == [j \in 1..3 |-> KeyOnlyGet(rows, XwalkKeys[j], NameKey(XwalkKeys[j], p.name))]
  IN  FirstOverKeys(t1 \o t2 \o t3 \o t4, 1)

\* MLB fuzzy_from_bucket: the rows with the same last name, narrowed by team
\* and by position only when that leaves a row; the first closest one
fuzzy_from_bucket(p, rows) ==
  LET bucket == {i \in 1..Len(rows) : last_name(rows[i].name) = last_name(p.name)}
      byTeam == {i \in bucket : rows[i].team = p.team}
      cand1  == IF p.team # "" /\ byTeam # {} THEN byTeam ELSE bucket
      byPos  == {i \in cand1 : rows[i].pos = p.pos}
      cand2  == IF p.pos # "" /\ byPos # {} THEN byPos ELSE cand1
      close  == {i \in cand2 : fuzzy_close(p.name, rows[i].name)}
  IN  IF close = {} THEN NoHit ELSE CHOOSE i \in close : \A j \in close : i <= j

\* NFL _gate: strict on the team, lenient on the position, one row or none
gate(rows, cands, team, pos) ==
  LET out  == IF team # "" THEN {i \in cands : rows[i].team = team} ELSE cands
      out2 == {i \in out : rows[i].pos = pos}
      res  == IF pos # "" /\ out2 # {} THEN out2 ELSE out
  IN  IF Cardinality(res) = 1 THEN CHOOSE i \in res : TRUE ELSE NoHit

\* NFL: _gate over by_norm, by_base, by_filast, then the loop over all rows
nfl_match(p, rows) ==
  LET g == [j \in 1..3 |->
              gate(rows, {i \in 1..Len(rows) :
                            NameKey(XwalkKeys[j], rows[i].name) = NameKey(XwalkKeys[j], p.name)},
                   p.team, p.pos)]
      h == FirstOverKeys(g, 1)
  IN  IF h # NoHit THEN h
      ELSE FirstIndex(rows, [i \in 1..Len(rows) |->
             /\ last_name(rows[i].name) = last_name(p.name)
             /\ fuzzy_close(p.name, rows[i].name)
             /\ (p.team = "" \/ rows[i].team = p.team)
             /\ (p.pos = "" \/ rows[i].pos = p.pos)])

\* the salary row whose name and id are written for projection row p
xwalk_hit(s, p, rows) ==
  IF s = MLBIDS
    THEN (IF try_exact_maps(p, rows) # NoHit THEN try_exact_maps(p, rows)
          ELSE fuzzy_from_bucket(p, rows))
    ELSE nfl_match(p, rows)

VARIABLES
  xw_script,    \* MLB_DailyIDsAndXwalk or NFL_WeeklyIdsAndXwalk
  xw_proj,      \* the projection row
  xw_rows,      \* the rows of the DK (or FD) salary sheet
  xw_hit,       \* the index of the salary row matched, NoHit for none
  xw_done       \* the row has been written

xwalkVars == <<xw_script, xw_proj, xw_rows, xw_hit, xw_done>>

XwalkInit ==
  /\ xw_script \in IdScripts
  /\ xw_proj \in ProjRows
  /\ xw_rows \in SalaryRows
  /\ xw_hit = NoHit
  /\ xw_done = FALSE

XwalkIdle ==
  /\ xw_script = MLBIDS
  /\ xw_proj = [name |-> [first |-> "will", last |-> "smith", jr |-> FALSE], team |-> "", pos |-> ""]
  /\ xw_rows = <<>>
  /\ xw_hit = NoHit
  /\ xw_done = FALSE

\* ------------------------------------------------------------------------
\* NFL_Exporter: SingleMeta and the steps of main that feed it
\* ------------------------------------------------------------------------
MetaSteps == <<"tasks", "cheatsheets", "player_pool", "gameboard",
               "kickoff_map", "salary_merge">>

\* what one write site can do: not configured, write and record, or raise
\* before the file is written
WriteOutcomes == {"none", "ok", "raise"}

\* SingleMeta.add: one item appended per call
meta_add(items, artifact) == Append(items, artifact)

\* SingleMeta.flush: the payload's "artifacts" is the list of items
meta_flush(items) == items

VARIABLES
  mt_pc,         \* the step main is at, then "flush", "finally", "end"
  mt_tasksLeft,  \* entries of cfg["tasks"] not yet visited
  mt_log,        \* the artifact writes followed by meta.add, in order
  mt_items,      \* meta._items
  mt_attempted,  \* the steps whose function has been called
  mt_flushes,    \* number of times meta.json has been written
  mt_artifacts,  \* the "artifacts" list of the meta.json on disk
  mt_pending     \* the exception on its way out of main, or "none"

metaVars == <<mt_pc, mt_tasksLeft, mt_log, mt_items, mt_attempted, mt_flushes,
              mt_artifacts, mt_pending>>

\* main after "tasks must be an array" has passed, meta = SingleMeta(...)
MetaInit ==
  /\ mt_pc = "tasks"
  /\ mt_tasksLeft \in 0..MaxTasks
  /\ mt_log = <<>>
  /\ mt_items = <<>>
  /\ mt_attempted = {}
  /\ mt_flushes = 0
  /\ mt_artifacts = <<>>
  /\ mt_pending = "none"

MetaIdle ==
  /\ mt_pc = "end"
  /\ mt_tasksLeft = 0
  /\ mt_log = <<>>
  /\ mt_items = <<>>
  /\ mt_attempted = {}
  /\ mt_flushes = 0
  /\ mt_artifacts = <<>>
  /\ mt_pending = "none"

\* ------------------------------------------------------------------------
\* MLB_Exporter: _META_DIRS and the steps of main that mark directories
\* ------------------------------------------------------------------------
\* the output directories a config can name
OutDirs == {"mlb/latest", "mlb/latest/cheatsheets", "mlb/latest/matchups", "mlb/archive"}

\* _mark_meta_dir(path) of a file just written: its parent directory
mark_meta_dir(dirs, d) == dirs \cup {d}

\* _write_meta_files: meta.json into every directory of _META_DIRS; a failed
\* write is caught per directory (failed: the directories whose write raised)
write_meta_files(dirs, failed) == dirs \ failed

VARIABLES
  md_pc,         \* the step main is at, then "meta", "finally", "end"
  md_tasksLeft,  \* entries of cfg["tasks"] not yet visited
  md_touched,    \* the directories that received an exported file
  md_marked,     \* _META_DIRS
  md_meta,       \* the directories meta.json was written into
  md_pending     \* the exception on its way out of main, or "none"

metaDirsVars == <<md_pc, md_tasksLeft, md_touched, md_marked, md_meta, md_pending>>

\* main after "tasks must be an array" has passed
MetaDirsInit ==
  /\ md_pc = "tasks"
  /\ md_tasksLeft \in 0..MaxTasks
  /\ md_touched = {}
  /\ md_marked = {}
  /\ md_meta = {}
  /\ md_pending = "none"

MetaDirsIdle ==
  /\ md_pc = "end"
  /\ md_tasksLeft = 0
  /\ md_touched = {}
  /\ md_marked = {}
  /\ md_meta = {}
  /\ md_pending = "none"

\* ------------------------------------------------------------------------
\* MLB_DailyIDsAndXwalk run_merge_projections
\* ------------------------------------------------------------------------
\* longest row list of a projections file
MaxProjRows == 2

ProjRowIds == {"r1", "r2"}
RowLists == UNION { [1..n -> ProjRowIds] : n \in 0..MaxProjRows }

\* a value under a key of a JSON object: not a list, or a short list
NotAList == [isList |-> FALSE, items |-> <<>>]
ListVal(l) == [isList |-> TRUE, items |-> l]
KeyVals == {NotAList, ListVal(<<>>), ListVal(<<"r1">>)}

\* what a source file parses to: a list, an object with the keys "rows",
\* "players", "data", or nothing (the text is not JSON)
JsonList(items) == [kind |-> "list", items |-> items, rows |-> NotAList,
                    players |-> NotAList, data |-> NotAList]
JsonDict(r, p, d) == [kind |-> "dict", items |-> <<>>, rows |-> r,
                      players |-> p, data |-> d]
JsonInvalid == [kind |-> "invalid", items |-> <<>>, rows |-> NotAList,
                players |-> NotAList, data |-> NotAList]
Missing == [kind |-> "missing", items |-> <<>>, rows |-> NotAList,
            players |-> NotAList, data |-> NotAList]
SourceFiles ==
  {JsonList(l) : l \in RowLists}
    \cup {JsonDict(r, p, d) : r \in KeyVals, p \in {NotAList, ListVal(<<"r2">>)},
                            d \in {NotAList, ListVal(<<>>)}}
    \cup {JsonInvalid, Missing}

\* the projections_merge block: absent, or its three paths, each given or not
MergeBlocks == [present : BOOLEAN, batters_rel : BOOLEAN, pitchers_rel : BOOLEAN,
                out_rel : BOOLEAN]

\* rows(x) of run_merge_projections
rows(x) ==
  IF x.kind = "list" THEN x.items
  ELSE IF x.kind = "dict"
    THEN (IF x.rows.isList THEN x.rows.items
          ELSE IF x.players.isList THEN x.players.items
          ELSE IF x.data.isList THEN x.data.items
          ELSE <<>>)
  ELSE <<>>

\* variant: the pitcher rows come first
merged_pitchers_first(bat, pit) == rows(pit) \o rows(bat)

\* merged = rows(bat) + rows(pit)
merged(bat, pit) == rows(bat) \o rows(pit)

\* the content of projections.json before the call
Untouched == [written |-> FALSE, payload |-> <<>>]

\* run_merge_projections: the content of the output file after the call
\* (writeOk: _atomic_write_json replaced the file)
run_merge_projections_out(pm, bat, pit, writeOk) ==
  IF ~pm.present THEN Untouched
  ELSE IF ~(pm.batters_rel /\ pm.pitchers_rel /\ pm.out_rel) THEN Untouched
  ELSE IF bat.kind = "missing" \/ pit.kind = "missing" THEN Untouched
  ELSE IF bat.kind = "invalid" \/ pit.kind = "invalid" THEN Untouched
  ELSE IF ~writeOk THEN Untouched
  ELSE [written |-> TRUE, payload |-> merged(bat, pit)]

VARIABLES
  mp_cfg,     \* cfg["projections_merge"]
  mp_bat,     \* batters_projections.json
  mp_pit,     \* pitchers_projections.json
  mp_writeOk, \* whether the write of the call went through
  mp_out,     \* projections.json
  mp_done     \* run_merge_projections has returned

mergeProjVars == <<mp_cfg, mp_bat, mp_pit, mp_writeOk, mp_out, mp_done>>

MergeProjInit ==
  /\ mp_cfg \in MergeBlocks
  /\ mp_bat \in SourceFiles
  /\ mp_pit \in SourceFiles
  /\ mp_writeOk = TRUE
  /\ mp_out = Untouched
  /\ mp_done = FALSE

MergeProjIdle ==
  /\ mp_cfg = [present |-> FALSE, batters_rel |-> FALSE, pitchers_rel |-> FALSE,
               out_rel |-> FALSE]
  /\ mp_bat = Missing
  /\ mp_pit = Missing
  /\ mp_writeOk = TRUE
  /\ mp_out = Untouched
  /\ mp_done = FALSE

\* ------------------------------------------------------------------------
\* Gameboard: the column window of each title on a header row
\* ------------------------------------------------------------------------
\* number of columns of the dashboard sheet (max_col, n_cols)
MaxBoardCols == 4

\* a cell of the header row: empty, a title ("AAA @ BBB" or a yellow fill),
\* other text
HeaderCells == {"", "T", "x"}
BoardHeaderRows == [1..MaxBoardCols -> HeaderCells]

\* _gb_find_header_cols_in_row / _find_header_cols_in_row_grid
find_header_cols(row) == {c \in DOMAIN row : row[c] = "T"}

\* variant: the window also ends before two consecutive empty cells
c_end_gap(row, hdrs, c_start) ==
  LET max_col == Len(row)
      stops == {h - 1 : h \in {x \in hdrs : x > c_start}}
                 \cup {c \in c_start..max_col :
                         c + 2 <= max_col /\ row[c + 1] = "" /\ row[c + 2] = ""}
                 \cup {max_col}
  IN  CHOOSE c \in stops : \A d \in stops : c <= d

\* c_end = header_cols_sorted[idx + 1] - 1 if there is a next header, else
\* the last column
c_end(row, hdrs, c_start) ==
  LET later == {h \in hdrs : h > c_start}
  IN  IF later # {} THEN (CHOOSE h \in later : \A x \in later : h <= x) - 1
      ELSE Len(row)

\* the windows of one header row, one per title cell
panel_windows(row) ==
  {[c_start |-> c, c_end |-> c_end(row, find_header_cols(row), c)] :
     c \in find_header_cols(row)}

VARIABLES
  sp_script,   \* MLB_Exporter (run_matchups) or NFL_Exporter (run_gameboard)
  sp_row,      \* the header row, as wide as the sheet
  sp_windows,  \* the windows computed for the row
  sp_done

spanVars == <<sp_script, sp_row, sp_windows, sp_done>>

SpanInit ==
  /\ sp_script \in {MLB, NFL}
  /\ sp_row \in BoardHeaderRows
  /\ sp_windows = {}
  /\ sp_done = FALSE

SpanIdle ==
  /\ sp_script = MLB
  /\ sp_row = [c \in 1..MaxBoardCols |-> ""]
  /\ sp_windows = {}
  /\ sp_done = FALSE

\* ------------------------------------------------------------------------
\* Gameboard: the scan of the rows beneath a matchup title
\* ------------------------------------------------------------------------
\* number of rows of the dashboard sheet (max_row, n_rows)
MaxBoardRows == 5

\* a row of the sheet inside one title's column window: blank, a matchup
\* title, a team bar ("KC (27.5)" left and right), an odds line (O/U, SPREAD,
\* TOTAL, WEATHER), any other text
WindowRows == {"", "T", "B", "O", "P"}
BoardColumns == [1..MaxBoardRows -> WindowRows]

\* gameboard.end_after_blank_rows of MLB (default 8)
EndAfterBlankRows == {2, 8}

\* no team bar row was found
NoTeamBar == 0

\* the first inner loop: from the row beneath the title down to the team
\* bar. MLB skips blank rows; NFL counts them (blank_guard, never reset) and
\* gives up at the second
RECURSIVE find_team_bar(_, _, _, _, _)
find_team_bar(s, col, k, blank_guard, odds) ==
  IF k > Len(col) THEN [team_bar_row |-> NoTeamBar, odds |-> odds]
  ELSE IF col[k] = ""
    THEN (IF s = NFL
            THEN (IF blank_guard + 1 >= 2
                    THEN [team_bar_row |-> NoTeamBar, odds |-> odds]
                    ELSE find_team_bar(s, col, k + 1, blank_guard + 1, odds))
            ELSE find_team_bar(s, col, k + 1, blank_guard, odds))
  ELSE IF col[k] = "B" THEN [team_bar_row |-> k, odds |-> odds]
  ELSE find_team_bar(s, col, k + 1, blank_guard,
                     IF col[k] = "O" THEN odds \cup {k} ELSE odds)

\* the second inner loop: player lines from the row beneath the team bar,
\* until a title in the window, a team bar, or two blank rows in a row
RECURSIVE player_lines(_, _, _, _)
player_lines(col, k, blank_rows, lines) ==
  IF k > Len(col) THEN lines
  ELSE IF col[k] = "T" \/ col[k] = "B" THEN lines
  ELSE IF col[k] = ""
    THEN (IF blank_rows + 1 >= 2 THEN lines
          ELSE player_lines(col, k + 1, blank_rows + 1, lines))
  ELSE player_lines(col, k + 1, 0, lines \cup {k})

\* the game of the title in row r: the rows its odds, its team bar and its
\* player lines were read from; no game without a team bar
scan_game(s, col, r) ==
  LET f == find_team_bar(s, col, r + 1, 0, {})
  IN  IF f.team_bar_row = NoTeamBar THEN {}
      ELSE {[title |-> r, odds |-> f.odds, team_bar_row |-> f.team_bar_row,
             lines |-> player_lines(col, f.team_bar_row + 1, 0, {})]}

\* the outer loop over the rows; MLB stops after end_after blank rows once
\* it has a game
RECURSIVE board_games(_, _, _, _, _, _)
board_games(s, col, r, blank_streak, games, end_after) ==
  IF r > Len(col) THEN games
  ELSE IF col[r] = "T"
    THEN board_games(s, col, r + 1, blank_streak, games \cup scan_game(s, col, r), end_after)
  ELSE IF col[r] # "" THEN board_games(s, col, r + 1, 0, games, end_after)
  ELSE IF s = MLB /\ blank_streak + 1 >= end_after /\ games # {} THEN games
  ELSE board_games(s, col, r + 1, blank_streak + 1, games, end_after)

VARIABLES
  bd_script,     \* MLB_Exporter (run_matchups) or NFL_Exporter (run_gameboard)
  bd_col,        \* the rows of the sheet inside the column window
  bd_end_after,  \* gameboard.end_after_blank_rows
  bd_games,      \* the games written
  bd_done

boardVars == <<bd_script, bd_col, bd_end_after, bd_games, bd_done>>

BoardInit ==
  /\ bd_script \in {MLB, NFL}
  /\ bd_col \in BoardColumns
  /\ bd_end_after \in (IF bd_script = MLB THEN EndAfterBlankRows ELSE {8})
  /\ bd_games = {}
  /\ bd_done = FALSE

BoardIdle ==
  /\ bd_script = MLB
  /\ bd_col = [r \in 1..MaxBoardRows |-> ""]
  /\ bd_end_after = 8
  /\ bd_games = {}
  /\ bd_done = FALSE

\* ------------------------------------------------------------------------
\* run_cheatsheets: the header row of a block
\* ------------------------------------------------------------------------
\* the cells of the title row and of the row below: empty, the title, other
\* text, two of the expected header labels
HdrCellVals == {<<>>, ConfigTitle, <<"x">>, <<"P", "l", "a", "y", "e", "r">>,
                <<"t", "e", "a", "m">>}

\* sheets with the title in the first cell of row 1 and nothing below row 2
HdrSheets ==
  {sh \in [1..MaxSheetRows -> [CheatCols -> HdrCellVals]] :
     /\ sh[1][1] = ConfigTitle
     /\ \A r \in 3..MaxSheetRows : \A c \in CheatCols : sh[r][c] = <<>>}

VARIABLES
  hd_script,    \* the exporter
  hd_sheet,     \* the sheet
  hd_header_r,  \* the header row chosen for the block at (1, 1)
  hd_done

hdrVars == <<hd_script, hd_sheet, hd_header_r, hd_done>>

HdrInit ==
  /\ hd_script \in Exporters
  /\ hd_sheet \in HdrSheets
  /\ hd_header_r = 1
  /\ hd_done = FALSE

HdrIdle ==
  /\ hd_script = MLB
  /\ hd_sheet = [r \in 1..MaxSheetRows |-> [c \in CheatCols |-> <<>>]]
  /\ hd_header_r = 1
  /\ hd_done = FALSE

\* ------------------------------------------------------------------------
\* MLB run_cheatsheets: _to_12h
\* ------------------------------------------------------------------------
\* the largest hour the pattern (\d{1,2}) lets through
MaxHour == 99

\* the values that match _TIME12_RE, by the groups of the match: the hour,
\* the two minute digits, whether seconds follow, the AM/PM suffix as typed
\* ("" for none)
TimeInputs == [hh : 0..MaxHour, mm : {"00", "05", "59"}, seconds : BOOLEAN,
               ampm : {"", "AM", "PM", "am", "pm"}]

\* ampm.upper()
UpperSuffix(a) == CASE a = "am" -> "AM" [] a = "pm" -> "PM" [] OTHER -> a

\* _to_12h on a value that matches: f"{hour}:{mm} {suffix}"
to_12h(t) ==
  IF t.ampm # "" THEN [hour |-> t.hh, mm |-> t.mm, suffix |-> UpperSuffix(t.ampm)]
  ELSE IF t.hh = 0 THEN [hour |-> 12, mm |-> t.mm, suffix |-> "AM"]
  ELSE IF t.hh <= 11 THEN [hour |-> t.hh, mm |-> t.mm, suffix |-> "AM"]
  ELSE IF t.hh = 12 THEN [hour |-> 12, mm |-> t.mm, suffix |-> "PM"]
  ELSE [hour |-> t.hh - 12, mm |-> t.mm, suffix |-> "PM"]

VARIABLES
  tm_in,    \* the Time value of a cheat-sheet row
  tm_out,   \* what _to_12h returned
  tm_done

timeVars == <<tm_in, tm_out, tm_done>>

TimeInit ==
  /\ tm_in \in TimeInputs
  /\ tm_out = [hour |-> 0, mm |-> "", suffix |-> ""]
  /\ tm_done = FALSE

TimeIdle ==
  /\ tm_in = [hh |-> 0, mm |-> "00", seconds |-> FALSE, ampm |-> ""]
  /\ tm_out = [hour |-> 0, mm |-> "", suffix |-> ""]
  /\ tm_done = FALSE

\* ------------------------------------------------------------------------
\* projections.json through merge_salaries_into_projections (NFL_Exporter)
\* and merge_showdown_into_projections (NFL_Showdown_Exporter)
\* ------------------------------------------------------------------------
\* longest record list of projections.json
MaxPjRows == 2

\* a record: player and team as written, a kickoff time, the salary fields a
\* merge sets (number and printable text), the site ids, and a field no merge
\* knows ("" stands for a key that is absent or empty)
PjRecord(player, time) ==
  [player |-> player, team |-> "kc", time |-> time, dk_sal |-> "", dk_txt |-> "",
   fd_sal |-> "", fd_txt |-> "", ids |-> "", proj |-> "7.5"]
PjRecords == {PjRecord(p, t) : p \in {<<" ", "B", "o", "b">>, <<"a", "l">>},
                               t \in {"", "1:00 PM"}}
PjLists == UNION { [1..n -> PjRecords] : n \in 0..MaxPjRows }

\* what the file parses to: null, an array, or an object whose "rows",
\* "players" and "data" are lists or not, with or without another key
PjNull == [type |-> "null", items |-> <<>>, rows |-> NotAList, players |-> NotAList,
           data |-> NotAList, extra |-> FALSE]
PjArray(l) == [type |-> "list", items |-> l, rows |-> NotAList, players |-> NotAList,
               data |-> NotAList, extra |-> FALSE]
PjObject(r, p, d, x) == [type |-> "dict", items |-> <<>>, rows |-> r, players |-> p,
                         data |-> d, extra |-> x]
PjFiles ==
  {PjNull} \cup {PjArray(l) : l \in PjLists}
    \cup {PjObject(ListVal(l), NotAList, NotAList, x) : l \in PjLists, x \in BOOLEAN}
    \cup {PjObject(NotAList, ListVal(l), NotAList, x) : l \in PjLists, x \in BOOLEAN}
    \cup {PjObject(ListVal(l), ListVal(<<PjRecord(<<"a", "l">>, "")>>), NotAList, x) :
            l \in PjLists, x \in BOOLEAN}
    \cup {PjObject(NotAList, NotAList, ListVal(l), x) : l \in PjLists, x \in BOOLEAN}

\* _to_rows_shape(raw): the rows and the kind of container
to_rows_shape(raw) ==
  IF raw.type = "null" THEN [rows |-> <<>>, kind |-> "none"]
  ELSE IF raw.type = "list" THEN [rows |-> raw.items, kind |-> "array"]
  ELSE IF raw.rows.isList THEN [rows |-> raw.rows.items, kind |-> "rows"]
  ELSE IF raw.players.isList THEN [rows |-> raw.players.items, kind |-> "players"]
  ELSE [rows |-> <<>>, kind |-> "unknown"]

\* _key_for / _key: f"{player.strip().lower()}|{team.strip().upper()}"
UpperTeam(t) == CASE t = "kc" -> "KC" [] t = "sf" -> "SF" [] OTHER -> t
key_for(player, team) == <<Lower(Strip(player)), UpperTeam(team)>>

\* the one entry the salary source holds, for Bob of KC: salaries, time, id
\* ("" for none); NoEntry when the source has no row for him
NoEntry == [exists |-> FALSE, dk |-> "", fd |-> "", time |-> "", id |-> ""]
SalEntries ==
  {NoEntry} \cup [exists : {TRUE}, dk : {"", "5000"}, fd : {"", "6000"},
                  time : {"", "4:25 PM"}, id : {"111"}]
EntryKey == <<<<"b", "o", "b">>, "KC">>

\* _build_salary_map: a row without salary and time is left out
sal_map_get(entry, key) ==
  IF entry.exists /\ key = EntryKey
       /\ ~(entry.dk = "" /\ entry.fd = "" /\ entry.time = "")
    THEN entry ELSE NoEntry

\* the kickoff map: a time per key, "" for none
KickoffMaps == [{<<<<"b", "o", "b">>, "KC">>, <<<<"a", "l">>, "KC">>} -> {"", "8:15 PM"}]
kickoff_get(kick, key) == IF key \in DOMAIN kick THEN kick[key] ELSE ""

\* float(s["dk"]) and _fmt_money(s["dk"])
FloatText(n) == CASE n = "5000" -> "5000.0" [] n = "6000" -> "6000.0" [] OTHER -> n
fmt_money(n) == CASE n = "5000" -> "5,000" [] n = "6000" -> "6,000" [] OTHER -> ""

\* variant: the time of the salary entry always replaces the record's
merge_row_overwrite_time(r, entry, kick) ==
  LET key == key_for(r.player, r.team)
      s   == sal_map_get(entry, key)
      r1  == IF s.exists /\ s.dk # ""
               THEN [r EXCEPT !.dk_sal = FloatText(s.dk), !.dk_txt = fmt_money(s.dk)] ELSE r
      r2  == IF s.exists /\ s.time # "" THEN [r1 EXCEPT !.time = s.time] ELSE r1
  IN  r2

\* the body of "for r in rows" of merge_salaries_into_projections
merge_row(r, entry, kick) ==
  LET key == key_for(r.player, r.team)
      s   == sal_map_get(entry, key)
      r1  == IF s.exists /\ s.dk # ""
               THEN [r EXCEPT !.dk_sal = FloatText(s.dk), !.dk_txt = fmt_money(s.dk)] ELSE r
      r2  == IF s.exists /\ s.fd # ""
               THEN [r1 EXCEPT !.fd_sal = FloatText(s.fd), !.fd_txt = fmt_money(s.fd)] ELSE r1
      r3  == IF s.exists /\ s.time # "" /\ r2.time = ""
               THEN [r2 EXCEPT !.time = s.time] ELSE r2
      r4  == IF r3.time = "" /\ kickoff_get(kick, key) # ""
               THEN [r3 EXCEPT !.time = kickoff_get(kick, key)] ELSE r3
  IN  r4

\* the body of "for r in rows" of merge_showdown_into_projections: ids and
\* printable salaries from site_ids.json, the time where the record has none
merge_showdown_row(r, entry) ==
  LET key == key_for(r.player, r.team)
      s   == IF entry.exists /\ key = EntryKey THEN entry ELSE NoEntry
      r1  == IF s.exists THEN [r EXCEPT !.ids = s.id] ELSE r
      r2  == IF s.exists /\ s.dk # "" THEN [r1 EXCEPT !.dk_txt = fmt_money(s.dk)] ELSE r1
      r3  == IF s.exists /\ s.fd # "" THEN [r2 EXCEPT !.fd_txt = fmt_money(s.fd)] ELSE r2
      r4  == IF r3.time = "" /\ s.exists /\ s.time # ""
               THEN [r3 EXCEPT !.time = s.time] ELSE r3
  IN  r4

\* the rows are updated in place, so the list they came from holds them
UpdatedInPlace(raw, kind, rs) ==
  CASE kind = "array"   -> [raw EXCEPT !.items = rs]
    [] kind = "rows"    -> [raw EXCEPT !.rows = ListVal(rs)]
    [] kind = "players" -> [raw EXCEPT !.players = ListVal(rs)]
    [] OTHER            -> raw

\* NFL _write_back(rows, shape, out_path): what the file holds afterwards
write_back(raw, kind, rs) ==
  CASE kind = "array"   -> PjArray(rs)
    [] kind = "rows"    -> [UpdatedInPlace(raw, kind, rs) EXCEPT !.rows = ListVal(rs)]
    [] kind = "players" -> [UpdatedInPlace(raw, kind, rs) EXCEPT !.players = ListVal(rs)]
    [] OTHER            -> PjArray(rs)

\* Showdown: _write_json(proj_path, rows if shape[0] == "array" else
\* (shape[1] | {"rows": rows})); None | {...} raises TypeError
showdown_write_raises(raw, kind) == kind # "array" /\ raw.type # "dict"
showdown_write(raw, kind, rs) ==
  IF kind = "array" THEN PjArray(rs)
  ELSE [UpdatedInPlace(raw, kind, rs) EXCEPT !.rows = ListVal(rs)]

VARIABLES
  pj_script,   \* NFL_Exporter or NFL_Showdown_Exporter
  pj_before,   \* projections.json before the merge
  pj_entry,    \* the salary source's entry for Bob of KC
  pj_kick,     \* the kickoff map (NFL)
  pj_file,     \* projections.json
  pj_wrote,    \* the merge wrote the file
  pj_done

pjVars == <<pj_script, pj_before, pj_entry, pj_kick, pj_file, pj_wrote, pj_done>>

PjInit ==
  /\ pj_script \in {NFL, SHOW}
  /\ pj_before \in PjFiles
  /\ pj_entry \in SalEntries
  /\ pj_kick \in (IF pj_script = NFL THEN KickoffMaps
                  ELSE {[k \in DOMAIN CHOOSE m \in KickoffMaps : TRUE |-> ""]})
  /\ pj_file = pj_before
  /\ pj_wrote = FALSE
  /\ pj_done = FALSE

PjIdle ==
  /\ pj_script = NFL
  /\ pj_before = PjNull
  /\ pj_entry = NoEntry
  /\ pj_kick = [k \in DOMAIN CHOOSE m \in KickoffMaps : TRUE |-> ""]
  /\ pj_file = PjNull
  /\ pj_wrote = FALSE
  /\ pj_done = FALSE

\* ------------------------------------------------------------------------
\* _atomic_write_json (MLB_DailyIDsAndXwalk)
\* ------------------------------------------------------------------------
\* longest payload, in items json.dump writes one after the other
MaxPayload == 2

\* an item json.dump can serialise, or one it raises TypeError on
PayloadItems == {"a", "b", "unserialisable"}
Payloads == UNION { [1..n -> PayloadItems] : n \in 0..MaxPayload }

\* a file: absent, or holding the items written to it
AbsentFile == [exists |-> FALSE, items |-> <<>>]
FileOf(items) == [exists |-> TRUE, items |-> items]

\* variant: the finally block leaves the temporary file where it is
tmp_after_finally_keep(tmp, removeOk) == tmp

\* finally: if os.path.exists(tmp): os.remove(tmp), a failure swallowed
tmp_after_finally(tmp, removeOk) ==
  IF tmp.exists /\ removeOk THEN AbsentFile ELSE tmp

VARIABLES
  aw_pc,            \* "start", "dump", "replace", "finally", "returned", "raised"
  aw_payload,       \* the payload
  aw_old,           \* the destination before the call
  aw_dest,          \* the destination
  aw_tmp,           \* the .tmp_ file beside it
  aw_exc,           \* an exception is propagating
  aw_removeFailed   \* os.remove(tmp) raised in the finally block

awVars == <<aw_pc, aw_payload, aw_old, aw_dest, aw_tmp, aw_exc, aw_removeFailed>>

AwInit ==
  /\ aw_pc = "start"
  /\ aw_payload \in Payloads
  /\ aw_old \in {AbsentFile, FileOf(<<"old">>)}
  /\ aw_dest = aw_old
  /\ aw_tmp = AbsentFile
  /\ aw_exc = FALSE
  /\ aw_removeFailed = FALSE

AwIdle ==
  /\ aw_pc = "start"
  /\ aw_payload = <<>>
  /\ aw_old = AbsentFile
  /\ aw_dest = AbsentFile
  /\ aw_tmp = AbsentFile
  /\ aw_exc = FALSE
  /\ aw_removeFailed = FALSE

\* ------------------------------------------------------------------------
\* The salary-sheet readers: _salary_read_sheet_letter_ws
\* (MLB_DailyIDsAndXwalk) and _salary_read_sheet (NFL_WeeklyIdsAndXwalk)
\* ------------------------------------------------------------------------
\* most data rows below the header row of a salary sheet
MaxSalDataRows == 2

\* BLANK_BREAK of both readers
BLANK_BREAK == 200

\* a cell value: None, or a text
SalNone == [none |-> TRUE, text |-> <<>>]
SalCell(t) == [none |-> FALSE, text |-> t]

NameText == <<"N", "a", "m", "e">>

\* the header row: the titles of the name column and of the id column
SalHeaderRows ==
  [name : {SalCell(NameText), SalCell(<<"P", "l", "a", "y", "e", "r">>)},
   id   : {SalCell(<<"I", "D">>), SalCell(<<>>)}]

\* a data row: the cells of the name column and of the id column
SalDataRows ==
  [name : {SalNone, SalCell(<<"A", "l">>), SalCell(<<" ", "B", "o">>)},
   id   : {SalNone, SalCell(<<"7">>), SalCell(<<"7", "-", "2">>), SalCell(<<"i", "d", "9">>)}]

\* a sheet: the header row in row 1, the data rows below it
SalSheets ==
  UNION { {<<h>> \o d : h \in SalHeaderRows, d \in [1..n -> SalDataRows]} :
            n \in 0..MaxSalDataRows }

\* re.search(r"([\d\-]+)", pid): the first run of digits and hyphens, and
\* pid itself where there is none
IsIdChar(c) == IsDigit(c) \/ c = "-"
RECURSIVE RunFrom(_, _)
RunFrom(t, i) ==
  IF i > Len(t) \/ ~IsIdChar(t[i]) THEN <<>> ELSE <<t[i]>> \o RunFrom(t, i + 1)
pid_clean(pid) ==
  IF \E i \in 1..Len(pid) : IsIdChar(pid[i])
    THEN RunFrom(pid, CHOOSE i \in 1..Len(pid) :
                        IsIdChar(pid[i]) /\ \A j \in 1..(i - 1) : ~IsIdChar(pid[j]))
    ELSE pid

\* str(v or "").strip() of the MLB reader
StrOrEmpty(v) == IF v.none THEN <<>> ELSE Strip(v.text)

\* name and pid as each reader takes them from a row
sal_name(script, row) ==
  IF script = MLBIDS THEN StrOrEmpty(row.name)
  ELSE IF row.name.none \/ row.name.text = NameText THEN <<>> ELSE Strip(row.name.text)
sal_pid(script, row) ==
  IF script = MLBIDS THEN StrOrEmpty(row.id)
  ELSE IF row.id.none \/ row.id.text = <<>> THEN <<>> ELSE Strip(row.id.text)

\* the row counts as blank
sal_blank(script, name, pid) ==
  IF script = MLBIDS THEN (name = <<>> \/ name = NameText) /\ pid = <<>>
  ELSE name = <<>> /\ pid = <<>>

\* the state of the loop before any row
SalStart == [out |-> <<>>, seen_ids |-> {}, blank_run |-> 0, seen_any |-> FALSE, stop |-> FALSE]

\* one pass of the loop body over row r of the sheet (row_hard_cap 0: none)
sal_row(script, sheet, r, st, cap) ==
  LET name == sal_name(script, sheet[r])
      pid  == sal_pid(script, sheet[r])
      id   == pid_clean(pid)
  IN  IF sal_blank(script, name, pid)
        THEN IF st.seen_any
               THEN [st EXCEPT !.blank_run = @ + 1, !.stop = (st.blank_run + 1 >= BLANK_BREAK)]
               ELSE st
      ELSE IF name = <<>> \/ pid = <<>>
        THEN [st EXCEPT !.blank_run = 0,
                        !.seen_any = IF script = MLBIDS THEN TRUE ELSE @]
      ELSE IF id \in st.seen_ids
        THEN [st EXCEPT !.blank_run = 0, !.seen_any = TRUE]
      ELSE [out |-> Append(st.out, [name |-> name, id |-> id, row |-> r]),
            seen_ids |-> st.seen_ids \cup {id},
            blank_run |-> 0, seen_any |-> TRUE,
            stop |-> (cap # 0 /\ Len(st.out) + 1 >= cap)]

\* for row in rows 1..max_row, until a break
RECURSIVE sal_loop(_, _, _, _, _)
sal_loop(script, sheet, r, st, cap) ==
  IF r > Len(sheet) \/ st.stop THEN st
  ELSE sal_loop(script, sheet, r + 1, sal_row(script, sheet, r, st, cap), cap)

\* the records the reader returns, each with the sheet row it came from
salary_read_sheet(script, sheet, cap) == sal_loop(script, sheet, 1, SalStart, cap).out

VARIABLES
  sl_script,   \* MLB_DailyIDsAndXwalk or NFL_WeeklyIdsAndXwalk
  sl_sheet,    \* the salary sheet
  sl_cap,      \* row_hard_cap, 0 for none
  sl_out,      \* the list that goes to site_ids.json
  sl_done

slVars == <<sl_script, sl_sheet, sl_cap, sl_out, sl_done>>

SlInit ==
  /\ sl_script \in {MLBIDS, NFLIDS}
  /\ sl_sheet \in SalSheets
  /\ sl_cap \in {0, 1}
  /\ sl_out = <<>>
  /\ sl_done = FALSE

SlIdle ==
  /\ sl_script = MLBIDS
  /\ sl_sheet = <<>>
  /\ sl_cap = 0
  /\ sl_out = <<>>
  /\ sl_done = FALSE

otherThanRun == <<dedupVars, recVars, mergeVars, cheatVars, xwalkVars, metaVars, metaDirsVars, mergeProjVars, spanVars, boardVars, hdrVars, timeVars, pjVars, awVars, slVars>>

otherThanDedup == <<runVars, recVars, mergeVars, cheatVars, xwalkVars, metaVars, metaDirsVars, mergeProjVars, spanVars, boardVars, hdrVars, timeVars, pjVars, awVars, slVars>>

otherThanRec == <<runVars, dedupVars, mergeVars, cheatVars, xwalkVars, metaVars, metaDirsVars, mergeProjVars, spanVars, boardVars, hdrVars, timeVars, pjVars, awVars, slVars>>

otherThanMerge == <<runVars, dedupVars, recVars, cheatVars, xwalkVars, metaVars, metaDirsVars, mergeProjVars, spanVars, boardVars, hdrVars, timeVars, pjVars, awVars, slVars>>

otherThanCheat == <<runVars, dedupVars, recVars, mergeVars, xwalkVars, metaVars, metaDirsVars, mergeProjVars, spanVars, boardVars, hdrVars, timeVars, pjVars, awVars, slVars>>

otherThanXwalk == <<runVars, dedupVars, recVars, mergeVars, cheatVars, metaVars, metaDirsVars, mergeProjVars, spanVars, boardVars, hdrVars, timeVars, pjVars, awVars, slVars>>

otherThanMeta == <<runVars, dedupVars, recVars, mergeVars, cheatVars, xwalkVars, metaDirsVars, mergeProjVars, spanVars, boardVars, hdrVars, timeVars, pjVars, awVars, slVars>>

otherThanMetaDirs == <<runVars, dedupVars, recVars, mergeVars, cheatVars, xwalkVars, metaVars, mergeProjVars, spanVars, boardVars, hdrVars, timeVars, pjVars, awVars, slVars>>

otherThanMergeProj == <<runVars, dedupVars, recVars, mergeVars, cheatVars, xwalkVars, metaVars, metaDirsVars, spanVars, boardVars, hdrVars, timeVars, pjVars, awVars, slVars>>

otherThanSpan == <<runVars, dedupVars, recVars, mergeVars, cheatVars, xwalkVars, metaVars, metaDirsVars, mergeProjVars, boardVars, hdrVars, timeVars, pjVars, awVars, slVars>>

otherThanBoard == <<runVars, dedupVars, recVars, mergeVars, cheatVars, xwalkVars, metaVars, metaDirsVars, mergeProjVars, spanVars, hdrVars, timeVars, pjVars, awVars, slVars>>

otherThanHdr == <<runVars, dedupVars, recVars, mergeVars, cheatVars, xwalkVars, metaVars, metaDirsVars, mergeProjVars, spanVars, boardVars, timeVars, pjVars, awVars, slVars>>

otherThanTime == <<runVars, dedupVars, recVars, mergeVars, cheatVars, xwalkVars, metaVars, metaDirsVars, mergeProjVars, spanVars, boardVars, hdrVars, pjVars, awVars, slVars>>

otherThanPj == <<runVars, dedupVars, recVars, mergeVars, cheatVars, xwalkVars, metaVars, metaDirsVars, mergeProjVars, spanVars, boardVars, hdrVars, timeVars, awVars, slVars>>

otherThanAw == <<runVars, dedupVars, recVars, mergeVars, cheatVars, xwalkVars, metaVars, metaDirsVars, mergeProjVars, spanVars, boardVars, hdrVars, timeVars, pjVars, slVars>>

otherThanSl == <<runVars, dedupVars, recVars, mergeVars, cheatVars, xwalkVars, metaVars, metaDirsVars, mergeProjVars, spanVars, boardVars, hdrVars, timeVars, pjVars, awVars>>

\* one call of the dedup function selected by dd_variant
DedupCall ==
  /\ ~dd_done
  /\ dd_out' = dedup(dd_names, dd_variant)
  /\ dd_done' = TRUE
  /\ UNCHANGED <<dd_variant, dd_names>>
  /\ UNCHANGED otherThanDedup

cur == StepsOf(args.script)[stepIdx]

\* leave the try block of main with exception or exit e raised at place w
Abort(e, w) ==
  /\ failedAt' = w
  /\ IF staged
       THEN /\ pending' = e
            /\ pc' = "finally"
            /\ outcome' = outcome
       ELSE /\ pending' = pending
            /\ pc' = "end"
            /\ outcome' = e

\* the statement after the last step
AfterSteps(s) ==
  CASE HasMeta(s)  -> "meta"
    [] s = MLBIDS  -> "close"
    [] s = SHOWIDS -> "end"
    [] OTHER       -> "finally"

Advance ==
  /\ failedAt' = failedAt
  /\ pending' = pending
  /\ IF stepIdx < Len(StepsOf(args.script))
       THEN /\ stepIdx' = stepIdx + 1
            /\ pc' = pc
            /\ outcome' = outcome
       ELSE /\ stepIdx' = stepIdx
            /\ pc' = AfterSteps(args.script)
            /\ outcome' = IF AfterSteps(args.script) = "end" THEN "normal" ELSE outcome

\* the effect of one call of a step function with outcome o
Apply(o) ==
  /\ loads' = loads + o.loads
  /\ openHandles' = openHandles + o.leak
  /\ written' = written + o.wrote
  /\ readPaths' = IF o.loads > 0 THEN readPaths \cup {PathGiven(args.script)}
                                 ELSE readPaths
  /\ reached' = reached \cup {cur}
  /\ raisedSteps' = IF o.raised THEN raisedSteps \cup {cur} ELSE raisedSteps

\* main, up to _stage_copy_for_read
CheckArgs ==
  /\ UNCHANGED otherThanRun
  /\ pc = "start"
  /\ IF ArgsFatal(args)
       THEN /\ outcome' = "exit1"
            /\ failedAt' = "args"
            /\ pc' = "end"
       ELSE /\ outcome' = outcome
            /\ failedAt' = failedAt
            /\ pc' = IF Stages(args.script) THEN "stage" ELSE "config"
  /\ UNCHANGED <<args, stepIdx, tasksLeft, pending, staged, tempExists,
                 openHandles, loads, readPaths, reached, raisedSteps, written,
                 metaWritten>>

\* _stage_copy_for_read: mkdtemp, then copy2, which can raise
Stage ==
  /\ UNCHANGED otherThanRun
  /\ pc = "stage"
  /\ tempExists' = TRUE
  /\ \E copied \in BOOLEAN :
       IF copied
         THEN /\ staged' = TRUE
              /\ pc' = "config"
              /\ outcome' = outcome
              /\ failedAt' = failedAt
         ELSE /\ staged' = FALSE
              /\ pc' = "end"
              /\ outcome' = "uncaught"
              /\ failedAt' = "stage"
  /\ UNCHANGED <<args, stepIdx, tasksLeft, pending, openHandles, loads,
                 readPaths, reached, raisedSteps, written, metaWritten>>


\* the scripts whose main opens the workbook itself and keeps the handle:
\* NASCAR (pd.ExcelFile, never closed) and MLB_DailyIDsAndXwalk (wb)
MainOpens(s) == s \in {NASCAR, MLBIDS}

\* main, from the try: to the first step: json.loads of the config, the
\* workbook main opens itself, the check of cfg["tasks"]
LoadConfig ==
  /\ UNCHANGED otherThanRun
  /\ pc = "config"
  /\ \E opened \in BOOLEAN, isList \in BOOLEAN, n \in 0..MaxTasks :
       LET s        == args.script
           jsonFail == s \in {MLB, NFL, SHOW, MLBIDS, NFLIDS} /\ ~args.cfgjson
           openFail == MainOpens(s) /\ ~opened
           didOpen  == MainOpens(s) /\ ~jsonFail /\ opened
           tasksBad == (s \in {MLB, NFL} /\ ~isList) \/ (s = NASCAR /\ n = 0)
       IN  /\ loads' = IF didOpen THEN loads + 1 ELSE loads
           /\ openHandles' = IF didOpen THEN openHandles + 1 ELSE openHandles
           /\ readPaths' = IF didOpen THEN readPaths \cup {PathGiven(s)} ELSE readPaths
           /\ IF jsonFail
                THEN Abort("uncaught", "config") /\ UNCHANGED <<stepIdx, tasksLeft>>
                ELSE IF openFail
                THEN /\ Abort(IF s = NASCAR THEN "exit1" ELSE "uncaught", "config")
                     /\ UNCHANGED <<stepIdx, tasksLeft>>
                ELSE IF tasksBad
                THEN Abort("exit1", "config") /\ UNCHANGED <<stepIdx, tasksLeft>>
                ELSE /\ pc' = "steps"
                     /\ stepIdx' = 1
                     /\ tasksLeft' = IF "tasks" \in StepNames(s) THEN n ELSE 0
                     /\ UNCHANGED <<pending, outcome, failedAt>>
  /\ UNCHANGED <<args, staged, tempExists, reached, raisedSteps, written,
                 metaWritten>>

\* one iteration of "for t in tasks": t.get(...) outside the try, then
\* try: run_task(...) except Exception
RunTask ==
  /\ UNCHANGED otherThanRun
  /\ pc = "steps"
  /\ cur = "tasks"
  /\ tasksLeft > 0
  /\ \E entryOk \in BOOLEAN :
       IF ~entryOk
         THEN /\ Abort("uncaught", "taskentry")
              /\ UNCHANGED <<stepIdx, tasksLeft, loads, openHandles, written,
                             readPaths, reached, raisedSteps>>
         ELSE \E o \in run_task(args.script) :
                /\ Apply(o)
                /\ tasksLeft' = tasksLeft - 1
                /\ stepIdx' = stepIdx
                /\ IF o.raised /\ ~Caught(args.script, cur)
                     THEN Abort("uncaught", cur)
                     ELSE UNCHANGED <<pc, pending, outcome, failedAt>>
  /\ UNCHANGED <<args, staged, tempExists, metaWritten>>

\* the task loop is exhausted
TasksDone ==
  /\ UNCHANGED otherThanRun
  /\ pc = "steps"
  /\ cur = "tasks"
  /\ tasksLeft = 0
  /\ Advance
  /\ reached' = reached \cup {cur}
  /\ UNCHANGED <<args, tasksLeft, staged, tempExists, openHandles, loads,
                 readPaths, raisedSteps, written, metaWritten>>

\* one of the other steps of main
RunStep ==
  /\ UNCHANGED otherThanRun
  /\ pc = "steps"
  /\ cur # "tasks"
  /\ StepSelected(args, cur)
  /\ \E o \in StepOutcomes(args.script, cur) :
       /\ Apply(o)
       /\ IF o.raised /\ ~Caught(args.script, cur)
            THEN Abort("uncaught", cur) /\ stepIdx' = stepIdx
            ELSE Advance
  /\ UNCHANGED <<args, tasksLeft, staged, tempExists, metaWritten>>

\* a step switched off by --only-site-ids / --only-xwalk
SkipStep ==
  /\ UNCHANGED otherThanRun
  /\ pc = "steps"
  /\ cur # "tasks"
  /\ ~StepSelected(args, cur)
  /\ Advance
  /\ UNCHANGED <<args, tasksLeft, staged, tempExists, openHandles, loads,
                 readPaths, reached, raisedSteps, written, metaWritten>>

\* MLB _write_meta_files (every failure swallowed per directory);
\* NFL meta.flush() (one file, the write can raise)
WriteMeta ==
  /\ UNCHANGED otherThanRun
  /\ pc = "meta"
  /\ IF args.script = MLB
       THEN /\ \E k \in 0..written : metaWritten' = metaWritten + k
            /\ pc' = "finally"
            /\ UNCHANGED <<pending, outcome, failedAt>>
       ELSE \E ok \in BOOLEAN :
              IF ok THEN /\ metaWritten' = metaWritten + 1
                         /\ pc' = "finally"
                         /\ UNCHANGED <<pending, outcome, failedAt>>
                    ELSE /\ metaWritten' = metaWritten
                         /\ Abort("uncaught", "meta")
  /\ UNCHANGED <<args, stepIdx, tasksLeft, staged, tempExists, openHandles,
                 loads, readPaths, reached, raisedSteps, written>>

\* MLB_DailyIDsAndXwalk: wb.close(), the last statement of the try block
CloseWb ==
  /\ UNCHANGED otherThanRun
  /\ pc = "close"
  /\ openHandles' = openHandles - 1
  /\ pc' = "finally"
  /\ UNCHANGED <<args, stepIdx, tasksLeft, pending, outcome, failedAt, staged,
                 tempExists, loads, readPaths, reached, raisedSteps, written,
                 metaWritten>>

\* finally: shutil.rmtree(temp_dir, ignore_errors=True); then the pending
\* exception or exit, if any, leaves main
Finally ==
  /\ UNCHANGED otherThanRun
  /\ pc = "finally"
  /\ tempExists' = rmtree(tempExists)
  /\ outcome' = IF pending = "none" THEN "normal" ELSE pending
  /\ pc' = "end"
  /\ UNCHANGED <<args, stepIdx, tasksLeft, pending, failedAt, staged,
                 openHandles, loads, readPaths, reached, raisedSteps, written,
                 metaWritten>>

RunNext ==
  \/ CheckArgs
  \/ Stage
  \/ LoadConfig
  \/ RunTask
  \/ TasksDone
  \/ RunStep
  \/ SkipStep
  \/ WriteMeta
  \/ CloseWb
  \/ Finally

vars == <<runVars, dedupVars, recVars, mergeVars, cheatVars, xwalkVars, metaVars, metaDirsVars, mergeProjVars, spanVars, boardVars, hdrVars, timeVars, pjVars, awVars, slVars>>

Init == RunInit /\ DedupIdle /\ RecIdle /\ MergeIdle /\ CheatIdle /\ XwalkIdle /\ MetaIdle /\ MetaDirsIdle /\ MergeProjIdle /\ SpanIdle /\ BoardIdle /\ HdrIdle /\ TimeIdle /\ PjIdle /\ AwIdle /\ SlIdle

Next == RunNext

Spec == Init /\ [][Next]_vars

\* a call of one of the dedup functions on a header row
InitDedup == RunIdle /\ DedupInit /\ RecIdle /\ MergeIdle /\ CheatIdle /\ XwalkIdle /\ MetaIdle /\ MetaDirsIdle /\ MergeProjIdle /\ SpanIdle /\ BoardIdle /\ HdrIdle /\ TimeIdle /\ PjIdle /\ AwIdle /\ SlIdle

NextDedup == DedupCall

SpecDedup == InitDedup /\ [][NextDedup]_vars

\* the percent options of a task's config entry; only NASCAR run_task reads
\* them, and percent_as_string has no effect without percent columns
TaskPercentConfigs(reader) ==
  {[percent_columns |-> {}, percent_as_string |-> TRUE]} \cup
  (IF reader = "read_literal_table" THEN {}
   ELSE [percent_columns : (SUBSET RecCols) \ {{}}, percent_as_string : BOOLEAN])

\* one task of an exporter on a sheet: read, reshape, format, write
RunTaskRecords ==
  /\ ~rec_done
  /\ \E keep \in SUBSET RecCols, cfg \in TaskPercentConfigs(rec_reader) :
       rec_json' = to_json_records(
                     run_task_frame(rec_reader, rec_cells, keep, cfg.percent_columns,
                                    cfg.percent_as_string))
  /\ rec_done' = TRUE
  /\ UNCHANGED <<rec_reader, rec_cells>>
  /\ UNCHANGED otherThanRec

InitRecords == RunIdle /\ DedupIdle /\ RecInit /\ MergeIdle /\ CheatIdle /\ XwalkIdle /\ MetaIdle /\ MetaDirsIdle /\ MergeProjIdle /\ SpanIdle /\ BoardIdle /\ HdrIdle /\ TimeIdle /\ PjIdle /\ AwIdle /\ SlIdle

NextRecords == RunTaskRecords

SpecRecords == InitRecords /\ [][NextRecords]_vars

\* the task loop reaches the projections task, on both disks
ProjectionsTask ==
  /\ mg_pc = "tasks"
  /\ mg_disk' = [d \in Disks |-> run_task_projections(mg_wb, mg_cfg, mg_disk[d])]
  /\ mg_wrote' = [d \in Disks |->
                   IF mg_cfg.projTask /\ mg_wb.projSheet
                     THEN mg_wrote[d] \cup {"projections"} ELSE mg_wrote[d]]
  /\ mg_pc' = "salaries"
  /\ UNCHANGED <<mg_script, mg_wb, mg_cfg>>
  /\ UNCHANGED otherThanMerge

\* the step that writes the salary file, on both disks
SalariesTask ==
  /\ mg_pc = "salaries"
  /\ mg_disk' = [d \in Disks |-> run_task_salaries(mg_wb, mg_cfg, mg_disk[d])]
  /\ mg_wrote' = [d \in Disks |->
                   IF mg_cfg.salTask /\ mg_wb.salSheet
                     THEN mg_wrote[d] \cup {"salaries"} ELSE mg_wrote[d]]
  /\ mg_pc' = "merge"
  /\ UNCHANGED <<mg_script, mg_wb, mg_cfg>>
  /\ UNCHANGED otherThanMerge

\* the merge main always attempts; it returns early without projections.json
MergeProjections ==
  /\ mg_pc = "merge"
  /\ mg_disk' = [d \in Disks |->
                  IF ~mg_disk[d].projections.exists THEN mg_disk[d]
                  ELSE IF mg_script = NFL
                         THEN merge_salaries_rows(mg_disk[d], mg_wb.kickoff)
                         ELSE merge_showdown_rows(mg_disk[d])]
  /\ mg_wrote' = [d \in Disks |->
                   IF mg_disk[d].projections.exists
                     THEN mg_wrote[d] \cup {"projections"} ELSE mg_wrote[d]]
  /\ mg_pc' = "done"
  /\ UNCHANGED <<mg_script, mg_wb, mg_cfg>>
  /\ UNCHANGED otherThanMerge

InitMerge == RunIdle /\ DedupIdle /\ RecIdle /\ MergeInit /\ CheatIdle /\ XwalkIdle /\ MetaIdle /\ MetaDirsIdle /\ MergeProjIdle /\ SpanIdle /\ BoardIdle /\ HdrIdle /\ TimeIdle /\ PjIdle /\ AwIdle /\ SlIdle

NextMerge ==
  \/ ProjectionsTask
  \/ SalariesTask
  \/ MergeProjections

SpecMerge == InitMerge /\ [][NextMerge]_vars

\* one call of run_cheatsheets on a sheet
RunCheatsheets ==
  /\ ~cs_done
  /\ cs_out' = cheatsheet_blocks(cs_script, cs_sheet, cs_cfg)
  /\ cs_done' = TRUE
  /\ UNCHANGED <<cs_script, cs_sheet, cs_cfg>>
  /\ UNCHANGED otherThanCheat

InitCheat == RunIdle /\ DedupIdle /\ RecIdle /\ MergeIdle /\ CheatInit /\ XwalkIdle /\ MetaIdle /\ MetaDirsIdle /\ MergeProjIdle /\ SpanIdle /\ BoardIdle /\ HdrIdle /\ TimeIdle /\ PjIdle /\ AwIdle /\ SlIdle

NextCheat == RunCheatsheets

SpecCheat == InitCheat /\ [][NextCheat]_vars

\* run_name_xwalk matches one projection row against one salary sheet
MatchRow ==
  /\ ~xw_done
  /\ xw_hit' = xwalk_hit(xw_script, xw_proj, xw_rows)
  /\ xw_done' = TRUE
  /\ UNCHANGED <<xw_script, xw_proj, xw_rows>>
  /\ UNCHANGED otherThanXwalk

InitXwalk == RunIdle /\ DedupIdle /\ RecIdle /\ MergeIdle /\ CheatIdle /\ XwalkInit /\ MetaIdle /\ MetaDirsIdle /\ MergeProjIdle /\ SpanIdle /\ BoardIdle /\ HdrIdle /\ TimeIdle /\ PjIdle /\ AwIdle /\ SlIdle

NextXwalk == MatchRow

SpecXwalk == InitXwalk /\ [][NextXwalk]_vars

\* the step after st in main
MetaNextPc(st) ==
  CASE st = "tasks" -> "cheatsheets"
    [] st = "cheatsheets" -> "player_pool"
    [] st = "player_pool" -> "gameboard"
    [] st = "gameboard" -> "kickoff_map"
    [] st = "kickoff_map" -> "salary_merge"
    [] st = "salary_merge" -> "flush"

\* a write site: the file is written and then meta.add is called
MetaWrite(log, items, o, artifact) ==
  IF o = "ok" THEN <<Append(log, artifact), meta_add(items, artifact)>>
              ELSE <<log, items>>

\* one iteration of "for t in tasks": t.get("sheet") outside the try, then
\* run_task -> export_one (CSV, then JSON) inside try/except Exception
MetaTask ==
  /\ mt_pc = "tasks" /\ mt_tasksLeft > 0
  /\ \E entryOk \in BOOLEAN, csv \in WriteOutcomes, jsn \in WriteOutcomes :
       IF ~entryOk
         THEN /\ mt_pending' = "uncaught"
              /\ mt_pc' = "finally"
              /\ UNCHANGED <<mt_tasksLeft, mt_log, mt_items, mt_attempted>>
         ELSE LET a == MetaWrite(mt_log, mt_items, csv, "task_csv")
                  b == IF csv = "raise" THEN a
                       ELSE MetaWrite(a[1], a[2], jsn, "task_json")
              IN  /\ mt_log' = b[1]
                  /\ mt_items' = b[2]
                  /\ mt_tasksLeft' = mt_tasksLeft - 1
                  /\ mt_attempted' = mt_attempted \cup {"tasks"}
                  /\ UNCHANGED <<mt_pc, mt_pending>>
  /\ UNCHANGED <<mt_flushes, mt_artifacts>>
  /\ UNCHANGED otherThanMeta

\* the task loop is exhausted
MetaTasksDone ==
  /\ mt_pc = "tasks" /\ mt_tasksLeft = 0
  /\ mt_pc' = "cheatsheets"
  /\ mt_attempted' = mt_attempted \cup {"tasks"}
  /\ UNCHANGED <<mt_tasksLeft, mt_log, mt_items, mt_flushes, mt_artifacts, mt_pending>>
  /\ UNCHANGED otherThanMeta

\* run_cheatsheets, _run_optional_player_pool (run_cheatsheets again, then
\* the enrichment that rewrites the file without meta.add), run_gameboard,
\* _build_kickoff_map_from_workbook (writes nothing),
\* merge_salaries_into_projections: each inside its own try/except Exception
MetaStep ==
  /\ mt_pc \in {"cheatsheets", "player_pool", "gameboard", "kickoff_map", "salary_merge"}
  /\ \E o \in WriteOutcomes :
       LET artifact == IF mt_pc = "salary_merge" THEN "projections" ELSE mt_pc
           w == IF mt_pc = "kickoff_map" THEN <<mt_log, mt_items>>
                ELSE MetaWrite(mt_log, mt_items, o, artifact)
       IN  /\ mt_log' = w[1]
           /\ mt_items' = w[2]
  /\ mt_attempted' = mt_attempted \cup {mt_pc}
  /\ mt_pc' = MetaNextPc(mt_pc)
  /\ UNCHANGED <<mt_tasksLeft, mt_flushes, mt_artifacts, mt_pending>>
  /\ UNCHANGED otherThanMeta

\* meta.flush(): mkdir and write_text, either of which can raise
MetaFlush ==
  /\ mt_pc = "flush"
  /\ \E ok \in BOOLEAN :
       IF ok THEN /\ mt_flushes' = mt_flushes + 1
                  /\ mt_artifacts' = meta_flush(mt_items)
                  /\ mt_pending' = mt_pending
             ELSE /\ mt_pending' = "uncaught"
                  /\ UNCHANGED <<mt_flushes, mt_artifacts>>
  /\ mt_pc' = "finally"
  /\ UNCHANGED <<mt_tasksLeft, mt_log, mt_items, mt_attempted>>
  /\ UNCHANGED otherThanMeta

\* finally: rmtree; main is left
MetaFinally ==
  /\ mt_pc = "finally"
  /\ mt_pc' = "end"
  /\ UNCHANGED <<mt_tasksLeft, mt_log, mt_items, mt_attempted, mt_flushes,
                 mt_artifacts, mt_pending>>
  /\ UNCHANGED otherThanMeta

InitMeta == RunIdle /\ DedupIdle /\ RecIdle /\ MergeIdle /\ CheatIdle /\ XwalkIdle /\ MetaInit /\ MetaDirsIdle /\ MergeProjIdle /\ SpanIdle /\ BoardIdle /\ HdrIdle /\ TimeIdle /\ PjIdle /\ AwIdle /\ SlIdle

NextMeta == MetaTask \/ MetaTasksDone \/ MetaStep \/ MetaFlush \/ MetaFinally

SpecMeta == InitMeta /\ [][NextMeta]_vars

\* a write site of MLB_Exporter: the file is written, then _mark_meta_dir
MarkWrite(touched, marked, o, d) ==
  IF o = "ok" THEN <<touched \cup {d}, mark_meta_dir(marked, d)>>
              ELSE <<touched, marked>>

\* one iteration of "for t in tasks": t.get("sheet") outside the try, then
\* run_task -> export_one (CSV, then JSON, both beside out_rel)
MetaDirsTask ==
  /\ md_pc = "tasks" /\ md_tasksLeft > 0
  /\ \E entryOk \in BOOLEAN, d \in OutDirs, csv \in WriteOutcomes, jsn \in WriteOutcomes :
       IF ~entryOk
         THEN /\ md_pending' = "uncaught"
              /\ md_pc' = "finally"
              /\ UNCHANGED <<md_tasksLeft, md_touched, md_marked>>
         ELSE LET a == MarkWrite(md_touched, md_marked, csv, d)
                  b == IF csv = "raise" THEN a ELSE MarkWrite(a[1], a[2], jsn, d)
              IN  /\ md_touched' = b[1]
                  /\ md_marked' = b[2]
                  /\ md_tasksLeft' = md_tasksLeft - 1
                  /\ UNCHANGED <<md_pc, md_pending>>
  /\ UNCHANGED md_meta
  /\ UNCHANGED otherThanMetaDirs

\* the task loop is exhausted
MetaDirsTasksDone ==
  /\ md_pc = "tasks" /\ md_tasksLeft = 0
  /\ md_pc' = "cheatsheets"
  /\ UNCHANGED <<md_tasksLeft, md_touched, md_marked, md_meta, md_pending>>
  /\ UNCHANGED otherThanMetaDirs

\* run_cheatsheets, then run_matchups, each inside try/except Exception
MetaDirsStep ==
  /\ md_pc \in {"cheatsheets", "matchups"}
  /\ \E o \in WriteOutcomes, d \in OutDirs :
       LET w == MarkWrite(md_touched, md_marked, o, d)
       IN  md_touched' = w[1] /\ md_marked' = w[2]
  /\ md_pc' = IF md_pc = "cheatsheets" THEN "matchups" ELSE "meta"
  /\ UNCHANGED <<md_tasksLeft, md_meta, md_pending>>
  /\ UNCHANGED otherThanMetaDirs

\* _write_meta_files(xlsm_path)
MetaDirsWrite ==
  /\ md_pc = "meta"
  /\ \E failed \in SUBSET md_marked :
       md_meta' = write_meta_files(md_marked, failed)
  /\ md_pc' = "finally"
  /\ UNCHANGED <<md_tasksLeft, md_touched, md_marked, md_pending>>
  /\ UNCHANGED otherThanMetaDirs

\* finally: rmtree; main is left
MetaDirsFinally ==
  /\ md_pc = "finally"
  /\ md_pc' = "end"
  /\ UNCHANGED <<md_tasksLeft, md_touched, md_marked, md_meta, md_pending>>
  /\ UNCHANGED otherThanMetaDirs

InitMetaDirs == RunIdle /\ DedupIdle /\ RecIdle /\ MergeIdle /\ CheatIdle /\ XwalkIdle /\ MetaIdle /\ MetaDirsInit /\ MergeProjIdle /\ SpanIdle /\ BoardIdle /\ HdrIdle /\ TimeIdle /\ PjIdle /\ AwIdle /\ SlIdle

NextMetaDirs ==
  MetaDirsTask \/ MetaDirsTasksDone \/ MetaDirsStep \/ MetaDirsWrite \/ MetaDirsFinally

SpecMetaDirs == InitMetaDirs /\ [][NextMetaDirs]_vars

\* one call of run_merge_projections(project_root, cfg)
RunMergeProjections ==
  /\ ~mp_done
  /\ \E writeOk \in BOOLEAN :
       /\ mp_writeOk' = writeOk
       /\ mp_out' = run_merge_projections_out(mp_cfg, mp_bat, mp_pit, writeOk)
  /\ mp_done' = TRUE
  /\ UNCHANGED <<mp_cfg, mp_bat, mp_pit>>
  /\ UNCHANGED otherThanMergeProj

InitMergeProj == RunIdle /\ DedupIdle /\ RecIdle /\ MergeIdle /\ CheatIdle /\ XwalkIdle /\ MetaIdle /\ MetaDirsIdle /\ MergeProjInit /\ SpanIdle /\ BoardIdle /\ HdrIdle /\ TimeIdle /\ PjIdle /\ AwIdle /\ SlIdle

NextMergeProj == RunMergeProjections

SpecMergeProj == InitMergeProj /\ [][NextMergeProj]_vars

\* the loop "for idx, c_start in enumerate(header_cols_sorted)" on one row
ScanHeaderRow ==
  /\ ~sp_done
  /\ sp_windows' = panel_windows(sp_row)
  /\ sp_done' = TRUE
  /\ UNCHANGED <<sp_script, sp_row>>
  /\ UNCHANGED otherThanSpan

InitSpan == RunIdle /\ DedupIdle /\ RecIdle /\ MergeIdle /\ CheatIdle /\ XwalkIdle /\ MetaIdle /\ MetaDirsIdle /\ MergeProjIdle /\ SpanInit /\ BoardIdle /\ HdrIdle /\ TimeIdle /\ PjIdle /\ AwIdle /\ SlIdle

NextSpan == ScanHeaderRow

SpecSpan == InitSpan /\ [][NextSpan]_vars

\* run_matchups / run_gameboard over the sheet
RunGameboard ==
  /\ ~bd_done
  /\ bd_games' = board_games(bd_script, bd_col, 1, 0, {}, bd_end_after)
  /\ bd_done' = TRUE
  /\ UNCHANGED <<bd_script, bd_col, bd_end_after>>
  /\ UNCHANGED otherThanBoard

InitBoard == RunIdle /\ DedupIdle /\ RecIdle /\ MergeIdle /\ CheatIdle /\ XwalkIdle /\ MetaIdle /\ MetaDirsIdle /\ MergeProjIdle /\ SpanIdle /\ BoardInit /\ HdrIdle /\ TimeIdle /\ PjIdle /\ AwIdle /\ SlIdle

NextBoard == RunGameboard

SpecBoard == InitBoard /\ [][NextBoard]_vars

\* run_cheatsheets at the title cell (1, 1): header_r
PickHeader ==
  /\ ~hd_done
  /\ hd_header_r' = HeaderRow(hd_script, hd_sheet, 1, 1, CheatCols)
  /\ hd_done' = TRUE
  /\ UNCHANGED <<hd_script, hd_sheet>>
  /\ UNCHANGED otherThanHdr

InitHdr == RunIdle /\ DedupIdle /\ RecIdle /\ MergeIdle /\ CheatIdle /\ XwalkIdle /\ MetaIdle /\ MetaDirsIdle /\ MergeProjIdle /\ SpanIdle /\ BoardIdle /\ HdrInit /\ TimeIdle /\ PjIdle /\ AwIdle /\ SlIdle

NextHdr == PickHeader

SpecHdr == InitHdr /\ [][NextHdr]_vars

\* rec["Time"] = _to_12h(rec["Time"])
NormalizeTime ==
  /\ ~tm_done
  /\ tm_out' = to_12h(tm_in)
  /\ tm_done' = TRUE
  /\ UNCHANGED tm_in
  /\ UNCHANGED otherThanTime

InitTime == RunIdle /\ DedupIdle /\ RecIdle /\ MergeIdle /\ CheatIdle /\ XwalkIdle /\ MetaIdle /\ MetaDirsIdle /\ MergeProjIdle /\ SpanIdle /\ BoardIdle /\ HdrIdle /\ TimeInit /\ PjIdle /\ AwIdle /\ SlIdle

NextTime == NormalizeTime

SpecTime == InitTime /\ [][NextTime]_vars

\* merge_salaries_into_projections / merge_showdown_into_projections on a
\* projections.json that exists
MergeIntoProjections ==
  /\ ~pj_done
  /\ LET sh   == to_rows_shape(pj_file)
         rs   == [i \in 1..Len(sh.rows) |->
                    IF pj_script = NFL THEN merge_row(sh.rows[i], pj_entry, pj_kick)
                    ELSE merge_showdown_row(sh.rows[i], pj_entry)]
     IN  IF pj_script = NFL
           THEN /\ pj_file' = write_back(pj_file, sh.kind, rs)
                /\ pj_wrote' = TRUE
           ELSE IF showdown_write_raises(pj_file, sh.kind)
             THEN UNCHANGED <<pj_file, pj_wrote>>
             ELSE /\ pj_file' = showdown_write(pj_file, sh.kind, rs)
                  /\ pj_wrote' = TRUE
  /\ pj_done' = TRUE
  /\ UNCHANGED <<pj_script, pj_before, pj_entry, pj_kick>>
  /\ UNCHANGED otherThanPj

InitPj == RunIdle /\ DedupIdle /\ RecIdle /\ MergeIdle /\ CheatIdle /\ XwalkIdle /\ MetaIdle /\ MetaDirsIdle /\ MergeProjIdle /\ SpanIdle /\ BoardIdle /\ HdrIdle /\ TimeIdle /\ PjInit /\ AwIdle /\ SlIdle

NextPj == MergeIntoProjections

SpecPj == InitPj /\ [][NextPj]_vars

\* ensure_parent(path); tempfile.mkstemp(dir=path.parent, prefix=".tmp_"):
\* both run before the try, so a failure leaves without the finally block
AwMkstemp ==
  /\ aw_pc = "start"
  /\ \E ok \in BOOLEAN :
       IF ok THEN /\ aw_tmp' = FileOf(<<>>)
                  /\ aw_pc' = "dump"
                  /\ UNCHANGED aw_exc
             ELSE /\ aw_pc' = "raised"
                  /\ aw_exc' = TRUE
                  /\ UNCHANGED aw_tmp
  /\ UNCHANGED <<aw_payload, aw_old, aw_dest, aw_removeFailed>>
  /\ UNCHANGED otherThanAw

\* json.dump(payload, f): the next item goes to the temporary file, unless
\* it cannot be serialised or the write fails
AwDumpItem ==
  /\ aw_pc = "dump"
  /\ Len(aw_tmp.items) < Len(aw_payload)
  /\ LET item == aw_payload[Len(aw_tmp.items) + 1]
     IN  \E writeOk \in BOOLEAN :
           IF item # "unserialisable" /\ writeOk
             THEN /\ aw_tmp' = FileOf(Append(aw_tmp.items, item))
                  /\ UNCHANGED <<aw_pc, aw_exc>>
             ELSE /\ aw_pc' = "finally"
                  /\ aw_exc' = TRUE
                  /\ UNCHANGED aw_tmp
  /\ UNCHANGED <<aw_payload, aw_old, aw_dest, aw_removeFailed>>
  /\ UNCHANGED otherThanAw

\* the with block closes the file: the flush succeeds or raises
AwClose ==
  /\ aw_pc = "dump"
  /\ Len(aw_tmp.items) = Len(aw_payload)
  /\ \E ok \in BOOLEAN :
       IF ok THEN aw_pc' = "replace" /\ UNCHANGED aw_exc
             ELSE aw_pc' = "finally" /\ aw_exc' = TRUE
  /\ UNCHANGED <<aw_payload, aw_old, aw_dest, aw_tmp, aw_removeFailed>>
  /\ UNCHANGED otherThanAw

\* os.replace(tmp, path): the rename happens whole or not at all
AwReplace ==
  /\ aw_pc = "replace"
  /\ \E ok \in BOOLEAN :
       IF ok THEN /\ aw_dest' = aw_tmp
                  /\ aw_tmp' = AbsentFile
                  /\ UNCHANGED aw_exc
             ELSE /\ aw_exc' = TRUE
                  /\ UNCHANGED <<aw_dest, aw_tmp>>
  /\ aw_pc' = "finally"
  /\ UNCHANGED <<aw_payload, aw_old, aw_removeFailed>>
  /\ UNCHANGED otherThanAw

\* finally: remove the temporary file if it is still there, swallowing a
\* failure; then return, or let the exception go on
AwFinally ==
  /\ aw_pc = "finally"
  /\ \E removeOk \in BOOLEAN :
       /\ aw_tmp.exists \/ removeOk
       /\ aw_tmp' = tmp_after_finally(aw_tmp, removeOk)
       /\ aw_removeFailed' = ~removeOk
  /\ aw_pc' = IF aw_exc THEN "raised" ELSE "returned"
  /\ UNCHANGED <<aw_payload, aw_old, aw_dest, aw_exc>>
  /\ UNCHANGED otherThanAw

InitAw == RunIdle /\ DedupIdle /\ RecIdle /\ MergeIdle /\ CheatIdle /\ XwalkIdle /\ MetaIdle /\ MetaDirsIdle /\ MergeProjIdle /\ SpanIdle /\ BoardIdle /\ HdrIdle /\ TimeIdle /\ PjIdle /\ AwInit /\ SlIdle

NextAw == AwMkstemp \/ AwDumpItem \/ AwClose \/ AwReplace \/ AwFinally

SpecAw == InitAw /\ [][NextAw]_vars

\* _salary_read_sheet_letter_ws / _salary_read_sheet on a sheet that exists
ReadSalarySheet ==
  /\ ~sl_done
  /\ sl_out' = salary_read_sheet(sl_script, sl_sheet, sl_cap)
  /\ sl_done' = TRUE
  /\ UNCHANGED <<sl_script, sl_sheet, sl_cap>>
  /\ UNCHANGED otherThanSl

InitSl == RunIdle /\ DedupIdle /\ RecIdle /\ MergeIdle /\ CheatIdle /\ XwalkIdle /\ MetaIdle /\ MetaDirsIdle /\ MergeProjIdle /\ SpanIdle /\ BoardIdle /\ HdrIdle /\ TimeIdle /\ PjIdle /\ AwIdle /\ SlInit

NextSl == ReadSalarySheet

SpecSl == InitSl /\ [][NextSl]_vars

\* ------------------------------------------------------------------------
\* Properties of one invocation
\* ------------------------------------------------------------------------
Ended == pc = "end"

C2_SiteIdsFailureDoesNotStopRun ==
  (Ended /\ args.script \in IdScripts /\ "site_ids" \in raisedSteps) =>
    /\ ~args.only_site_ids => "name_xwalk" \in reached
    /\ args.script = MLBIDS => "merge_projections" \in reached

C4_HandlesClosed == Ended => openHandles = 0

\* the inputs the sentence of C5 calls missing
C5_AnyMissing(a) == ~a.xlsm \/ ~a.config \/ ~a.argPublic

\* the inputs whose absence the code treats as fatal: the workbook; the
\* config except in NFL_Showdown_SiteIDs; the project root, after the
\* fallback to the script's own root where the script has one
C5_FatalMissing(a) ==
  \/ ~a.xlsm
  \/ a.script # SHOWIDS /\ ~a.config
  \/ IF a.script \in {NASCAR, SHOWIDS} THEN ~a.argPublic
                                       ELSE ~a.argPublic /\ ~a.rootPublic

C5_ExitsEarly ==
  /\ ~staged /\ ~tempExists /\ written = 0 /\ metaWritten = 0 /\ loads = 0
  /\ Ended => (outcome = "exit1" /\ failedAt = "args")

\* C5 as stated: a missing workbook, config or --project/public always ends
\* the run by sys.exit(1) before anything is staged or written.
C5_AsStated == (pc # "start" /\ C5_AnyMissing(args)) => (Ended /\ C5_ExitsEarly)

\* C5 amended: the same for the inputs the code treats as fatal.
C5_FatalInputsExitBeforeStaging ==
  (pc # "start" /\ C5_FatalMissing(args)) => (Ended /\ C5_ExitsEarly)

\* a run ended by sys.exit(1) because only the config file is missing
C5_Witness ==
  /\ Ended
  /\ args.xlsm /\ args.argPublic /\ ~args.config
  /\ outcome = "exit1"
  /\ ~staged /\ written = 0

\* C6: the workbook is never opened for reading at the --xlsm source path.
C6_OnlyStagedCopyRead == "source" \notin readPaths

\* C7 as stated: at most one workbook load per invocation.
C7_AsStated == loads <= 1

\* C7 amended: MLB_DailyIDsAndXwalk and NFL_Showdown_SiteIDs load the
\* workbook at most once per invocation, whatever steps run.
C7_SingleLoadScripts ==
  args.script \in {MLBIDS, SHOWIDS} => loads <= 1

\* an MLB_DailyIDsAndXwalk run in which site ids and crosswalk both ran and
\* wrote their files from the one workbook main loaded
C7_Witness ==
  /\ Ended
  /\ args.script = MLBIDS
  /\ {"site_ids", "name_xwalk"} \subseteq reached
  /\ raisedSteps = {}
  /\ written >= 2
  /\ loads = 1


\* ------------------------------------------------------------------------
\* Properties of header de-duplication
\* ------------------------------------------------------------------------
\* C8: the list dedup / _dedup_headers returns is as long as its argument and
\* its names are pairwise distinct.
C8_DedupDistinct ==
  dd_done =>
    /\ Len(dd_out) = Len(dd_names)
    /\ \A i, j \in 1..Len(dd_out) : i # j => dd_out[i] # dd_out[j]

\* ------------------------------------------------------------------------
\* Properties of the records a task writes
\* ------------------------------------------------------------------------
\* the source cell of key c of the i-th record written
SourceCell(i, c) == rec_cells[rec_json[i].src][c]

\* C9 as stated: in every record a task writes to JSON, a blank or empty
\* source cell appears as null or its key is omitted from the record
C9_AsStated ==
  rec_done =>
    \A i \in 1..Len(rec_json) : \A c \in RecCols :
      IsBlankCell(SourceCell(i, c)) =>
        (c \notin DOMAIN rec_json[i].rec \/ rec_json[i].rec[c] = JNull)

\* C9 (amended): in every record a task writes to JSON, a source cell without
\* a value or holding the empty string appears as the empty string "" or its
\* key is omitted from the record; it never appears as null or any other value
C9_BlankIsEmptyString ==
  rec_done =>
    \A i \in 1..Len(rec_json) : \A c \in RecCols :
      IsBlankCell(SourceCell(i, c)) =>
        (c \notin DOMAIN rec_json[i].rec \/ rec_json[i].rec[c] = VStr(<<>>))

\* a written record holds "" for a blank cell read through pandas, next to a
\* record of the same file that holds a value under the same key
C9_Witness ==
  /\ rec_done
  /\ rec_reader = "read_with_header_and_start"
  /\ \E i, j \in 1..Len(rec_json) : \E c \in RecCols :
       /\ c \in DOMAIN rec_json[i].rec
       /\ SourceCell(i, c) = CellNone
       /\ rec_json[i].rec[c] = VStr(<<>>)
       /\ rec_json[j].rec[c].kind = "num"

\* ------------------------------------------------------------------------
\* Properties of the merge across two disks
\* ------------------------------------------------------------------------
\* C10: after a run, the content of every output file the run writes is
\* determined by that run's workbook and config alone: the same workbook and
\* config on two disks write the same files with the same content, whatever
\* earlier runs left on either disk
C10_OutputsDeterminedByWorkbookAndConfig ==
  mg_pc = "done" =>
    /\ mg_wrote["disk1"] = mg_wrote["disk2"]
    /\ \A f \in mg_wrote["disk1"] : mg_disk["disk1"][f] = mg_disk["disk2"][f]

\* ------------------------------------------------------------------------
\* Properties of the cheat-sheet blocks
\* ------------------------------------------------------------------------
\* the title cells of the blocks written, in output order
BlockStarts == [i \in 1..Len(cs_out) |-> cs_out[i].start]

\* C11 as stated: in every cheat-sheet exporter the blocks of all cells that
\* hold the title are written under it, in row-then-column order of the
\* title cells, and no occurrence is dropped
C11_AsStated ==
  cs_done => BlockStarts = SortLocs(TitleLocs(cs_sheet))

\* C11 (amended): MLB_Exporter writes the blocks of all cells that hold the
\* title, in row-then-column order, dropping none; NFL_Exporter,
\* NFL_Showdown_Exporter and NASCAR_Exporter write only the block of the
\* first such cell in row-then-column order (NASCAR none when that block has
\* no data rows)
C11_MergedOnlyInMLB ==
  cs_done =>
    LET locs == TitleLocs(cs_sheet)
    IN  /\ cs_script = MLB => BlockStarts = SortLocs(locs)
        /\ cs_script \in {NFL, SHOW} =>
             BlockStarts = (IF locs = {} THEN <<>> ELSE <<MinLoc(locs)>>)
        /\ cs_script = NASCAR =>
             (BlockStarts = <<>> \/ BlockStarts = <<MinLoc(locs)>>)

\* MLB has merged two blocks with rows, in order
C11_Witness ==
  /\ cs_done
  /\ cs_script = MLB
  /\ Len(cs_out) >= 2
  /\ LocBefore(cs_out[1].start, cs_out[2].start)
  /\ cs_out[1].rows # <<>>
  /\ cs_out[2].rows # <<>>

\* the first row below the header row of block b whose first cell is a
\* configured title; one past the sheet when there is none
FirstTitleRowBelow(b) ==
  LET S == {r \in (b.header_r + 1)..MaxSheetRows :
              norm(CheatCell(cs_sheet, r, b.start[2])) \in all_titles_norm}
  IN  IF S = {} THEN MaxSheetRows + 1 ELSE CHOOSE r \in S : \A q \in S : r <= q

\* the first row below the header row of block b at which blank rows end
\* the block: the second of two blank rows in a row for MLB and NFL, the
\* first blank row for NASCAR and Showdown; one past the sheet when none
BlankRunRowBelow(b) ==
  LET k == BlanksToStop(cs_script)
      S == {r \in (b.header_r + k)..MaxSheetRows :
              \A q \in (r - k + 1)..r : RowBlank(cs_sheet, q, b.cols)}
  IN  IF S = {} THEN MaxSheetRows + 1 ELSE CHOOSE r \in S : \A q \in S : r <= q

\* C20: in every cheat-sheet extractor the rows collected for a block are
\* rows below its header row in sheet order, number at most limit_rows,
\* contain no all-blank row, and contain no row at or after the first row
\* whose first cell is a configured title or at or after the run of blank
\* rows that ends the block
C20_BlockRowsBounded ==
  cs_done =>
    \A i \in 1..Len(cs_out) :
      LET b == cs_out[i]
      IN  /\ Len(b.rows) <= cs_cfg.limit_rows
          /\ \A j \in 1..Len(b.rows) :
               /\ b.rows[j] \in (b.header_r + 1)..MaxSheetRows
               /\ j > 1 => b.rows[j - 1] < b.rows[j]
               /\ ~RowBlank(cs_sheet, b.rows[j], b.cols)
               /\ b.rows[j] < FirstTitleRowBelow(b)
               /\ b.rows[j] < BlankRunRowBelow(b)

\* a block with a row collected stops at a title row although its limit is
\* not reached and a row with text follows the title row
C20_Witness ==
  /\ cs_done
  /\ \E i \in 1..Len(cs_out) :
       LET b == cs_out[i]
           t == FirstTitleRowBelow(b)
       IN  /\ b.rows # <<>>
           /\ Len(b.rows) < cs_cfg.limit_rows
           /\ t < MaxSheetRows
           /\ t < BlankRunRowBelow(b)
           /\ ~RowBlank(cs_sheet, t + 1, b.cols)

\* ------------------------------------------------------------------------
\* Properties of the crosswalk
\* ------------------------------------------------------------------------
\* C12: in both crosswalk builders a projection row whose team is not empty
\* is only matched to a salary row with that same team
C12_MatchHasSameTeam ==
  (xw_done /\ xw_hit # NoHit /\ xw_proj.team # "") =>
    xw_rows[xw_hit].team = xw_proj.team

\* ------------------------------------------------------------------------
\* Properties of the --only-* flags
\* ------------------------------------------------------------------------
\* the run is one of the two IDs scripts that take the flags
FlagScript == args.script \in {MLBIDS, NFLIDS}

\* main entered the part that holds the two steps
ReachedSteps == failedAt \notin {"args", "stage", "config"}

\* C13 as stated: whenever --only-site-ids is passed the site-IDs step has run
\* and the crosswalk step has not by the end of the run, and whenever
\* --only-xwalk is passed the crosswalk step has run and the site-IDs step has
\* not
C13_AsStated ==
  (Ended /\ FlagScript) =>
    /\ args.only_site_ids => ("site_ids" \in reached /\ "name_xwalk" \notin reached)
    /\ args.only_xwalk => ("name_xwalk" \in reached /\ "site_ids" \notin reached)

\* C13: the crosswalk step never runs under --only-site-ids and the site-IDs
\* step never runs under --only-xwalk; the step a flag names has run by the end
\* of a run that got past the workbook and config checks, staging and config
\* loading when the other flag is not passed too
C13_OnlyFlags ==
  FlagScript =>
    /\ args.only_site_ids => "name_xwalk" \notin reached
    /\ args.only_xwalk => "site_ids" \notin reached
    /\ (Ended /\ ReachedSteps /\ args.only_site_ids /\ ~args.only_xwalk)
         => "site_ids" \in reached
    /\ (Ended /\ ReachedSteps /\ args.only_xwalk /\ ~args.only_site_ids)
         => "name_xwalk" \in reached

C13_Witness ==
  /\ Ended /\ args.script = NFLIDS /\ ReachedSteps
  /\ args.only_xwalk /\ ~args.only_site_ids
  /\ reached = {"name_xwalk"}

\* ------------------------------------------------------------------------
\* Properties of the consolidated meta.json
\* ------------------------------------------------------------------------
\* C14: a run of NFL_Exporter that got past config validation has written
\* meta.json exactly once when it ends, never before every export step was
\* attempted, and the artifacts list holds one item per recorded artifact
\* write, in the order of the writes
C14_MetaWrittenOnceAfterAllSteps ==
  /\ mt_flushes > 0 => ({"tasks", "cheatsheets", "player_pool", "gameboard",
                         "salary_merge"} \subseteq mt_attempted)
  /\ mt_flushes > 0 => mt_artifacts = mt_log
  /\ mt_flushes <= 1
  /\ mt_pc = "end" => mt_flushes = 1

\* ------------------------------------------------------------------------
\* Properties of the per-directory meta.json of MLB_Exporter
\* ------------------------------------------------------------------------
\* C15: when an MLB_Exporter run ends, meta.json has been written into
\* exactly the directories that received an exported file during the run
C15_MetaInExactlyTouchedDirs ==
  md_pc = "end" => md_meta = md_touched

\* ------------------------------------------------------------------------
\* Properties of run_merge_projections
\* ------------------------------------------------------------------------
\* something the call needs is missing: the block, a path, a source file
MergeInputMissing ==
  \/ ~mp_cfg.present
  \/ ~mp_cfg.batters_rel \/ ~mp_cfg.pitchers_rel \/ ~mp_cfg.out_rel
  \/ mp_bat.kind = "missing" \/ mp_pit.kind = "missing"

\* C16: projections.json, when run_merge_projections writes it, is the
\* batter rows followed by the pitcher rows, its length the sum of the two;
\* when the config block, one of its three paths or a source file is missing
\* the output file is left untouched
C16_BattersThenPitchers ==
  mp_done =>
    /\ mp_out.written =>
         /\ Len(mp_out.payload) = Len(rows(mp_bat)) + Len(rows(mp_pit))
         /\ \A i \in 1..Len(rows(mp_bat)) : mp_out.payload[i] = rows(mp_bat)[i]
         /\ \A i \in 1..Len(rows(mp_pit)) :
              mp_out.payload[Len(rows(mp_bat)) + i] = rows(mp_pit)[i]
    /\ MergeInputMissing => mp_out = Untouched
    /\ (~MergeInputMissing /\ mp_writeOk /\ mp_bat.kind # "invalid"
          /\ mp_pit.kind # "invalid") => mp_out.written

C16_Witness ==
  /\ mp_done /\ mp_out.written
  /\ rows(mp_bat) = <<"r1">> /\ mp_bat.kind = "dict"
  /\ rows(mp_pit) = <<"r2", "r1">>
  /\ mp_out.payload = <<"r1", "r2", "r1">>

\* ------------------------------------------------------------------------
\* Properties of the Showdown merge
\* ------------------------------------------------------------------------
\* C17: in NFL_Showdown_Exporter every salary (with its site id) and kickoff
\* time that merge_showdown_into_projections puts into projections.json was
\* produced by the site-IDs step of the same run, never left in site_ids.json
\* by an earlier run
C17_MergeUsesThisRunsSiteIds ==
  [][(mg_pc = "merge" /\ mg_script = SHOW) =>
       \A d \in Disks :
         /\ mg_disk'[d].projections.sal # mg_disk[d].projections.sal
              => mg_disk'[d].projections.sal = New
         /\ mg_disk'[d].projections.time # mg_disk[d].projections.time
              => mg_disk'[d].projections.time = New]_vars

\* ------------------------------------------------------------------------
\* Properties of the gameboard's column windows
\* ------------------------------------------------------------------------
\* the header cells right of column c
HeadersAfter(c) == {h \in 1..Len(sp_row) : h > c /\ sp_row[h] = "T"}

\* the columns c at or right of the title such that the two cells right of c
\* are both empty
GapsAfter(c) ==
  {g \in c..Len(sp_row) : g + 2 <= Len(sp_row) /\ sp_row[g + 1] = "" /\ sp_row[g + 2] = ""}

\* C18 as stated: a window starts at its title cell and ends just before the
\* next header cell of the row or just before two consecutive empty cells
\* right of the title, whichever comes first
C18_AsStated ==
  sp_done =>
    \A w \in sp_windows :
      /\ sp_row[w.c_start] = "T"
      /\ \A h \in HeadersAfter(w.c_start) : w.c_end <= h - 1
      /\ \A g \in GapsAfter(w.c_start) : w.c_end <= g

\* C18: a window starts at its title cell and ends just before the next
\* header cell of the row, or at the sheet's last column when the title is the
\* last header of the row, whatever cells are empty; so the windows of a row
\* do not overlap and cover every column from the first title on
C18_WindowToNextHeaderOrLastColumn ==
  sp_done =>
    /\ \A c \in 1..Len(sp_row) :
         sp_row[c] = "T" <=> \E w \in sp_windows : w.c_start = c
    /\ \A w \in sp_windows :
         /\ w.c_start <= w.c_end
         /\ \A c \in (w.c_start + 1)..w.c_end : sp_row[c] # "T"
         /\ w.c_end = Len(sp_row) \/ sp_row[w.c_end + 1] = "T"
    /\ \A c \in 1..Len(sp_row) :
         (\E h \in 1..c : sp_row[h] = "T") =>
           Cardinality({w \in sp_windows : w.c_start <= c /\ c <= w.c_end}) = 1

\* the last title of a row is followed by two empty cells and then by text,
\* and its window runs to the last column
C18_Witness ==
  /\ sp_done
  /\ sp_row = <<"T", "", "", "x">>
  /\ sp_windows = {[c_start |-> 1, c_end |-> 4]}

\* ------------------------------------------------------------------------
\* Properties of the scan beneath a matchup title
\* ------------------------------------------------------------------------
\* the rows a game was read from, beneath its title
RowsUsed(g) == g.odds \cup {g.team_bar_row} \cup g.lines

\* C19: in run_matchups and run_gameboard a game takes its odds lines, its
\* team-bar row and its player lines only from rows above the next matchup
\* title in its column window
C19_NothingFromBelowNextTitle ==
  bd_done =>
    \A g \in bd_games :
      \A t \in (g.title + 1)..Len(bd_col) :
        bd_col[t] = "T" => \A k \in RowsUsed(g) : k < t

\* ------------------------------------------------------------------------
\* Properties of the header row of a cheat-sheet block
\* ------------------------------------------------------------------------
\* the cells of row r that hold an expected header label
KeywordCells(r) == {c \in CheatCols : Lower(Strip(hd_sheet[r][c])) \in HeaderKeys}
NonEmptyCells(r) == {c \in CheatCols : Strip(hd_sheet[r][c]) # <<>>}
HasPlayer(r) ==
  \E c \in CheatCols : Lower(Strip(hd_sheet[r][c])) = <<"p", "l", "a", "y", "e", "r">>

\* C21 as stated: the header row is the title row or the row below it, and
\* the row below is chosen only when it matches the expected header keywords
\* better than the title row
C21_AsStated ==
  hd_done =>
    /\ hd_header_r \in {1, 2}
    /\ hd_header_r = 2 => Cardinality(KeywordCells(2)) > Cardinality(KeywordCells(1))

\* the score of MLB: keyword cells, three more for "player", non-empty cells
MlbScore(r) ==
  Cardinality(KeywordCells(r)) + (IF HasPlayer(r) THEN 3 ELSE 0)
    + Cardinality(NonEmptyCells(r))

\* C21: the header row is the title row or the row below it. MLB takes the
\* row below exactly when its score (keyword cells, plus three for "player",
\* plus non-empty cells) is strictly higher, the title row on a tie; NFL
\* takes the row below exactly when it holds two different header keywords;
\* NASCAR and Showdown always take the title row
C21_HeaderRowRule ==
  hd_done =>
    /\ hd_header_r \in {1, 2}
    /\ hd_script = MLB => (hd_header_r = 2 <=> MlbScore(2) > MlbScore(1))
    /\ hd_script = NFL =>
         (hd_header_r = 2 <=>
            Cardinality({Lower(Strip(hd_sheet[2][c])) : c \in KeywordCells(2)}) >= 2)
    /\ hd_script \in {NASCAR, SHOW} => hd_header_r = 1

\* MLB takes a row below that holds no keyword at all, only more text
C21_Witness ==
  /\ hd_done /\ hd_script = MLB /\ hd_header_r = 2
  /\ KeywordCells(2) = {} /\ KeywordCells(1) = {}
  /\ Cardinality(NonEmptyCells(2)) = 2

\* ------------------------------------------------------------------------
\* Properties of _to_12h
\* ------------------------------------------------------------------------
\* C22: for every value that matches H:MM or HH:MM (optional seconds,
\* optional AM/PM) _to_12h returns h:MM AM or h:MM PM with h from 1 to 12
C22_HourBetween1And12 ==
  tm_done =>
    /\ tm_out.hour \in 1..12
    /\ tm_out.suffix \in {"AM", "PM"}
    /\ tm_out.mm = tm_in.mm

\* ------------------------------------------------------------------------
\* Properties of the merges into projections.json
\* ------------------------------------------------------------------------
\* the record lists a file holds, by where they sit
Held(f) == <<f.items, f.rows.items, f.players.items, f.data.items>>

\* record b is record a with at most some fields added or updated
SameRecord(a, b) == b.player = a.player /\ b.team = a.team /\ b.proj = a.proj

\* C23: whatever JSON shape projections.json had, after
\* merge_salaries_into_projections it holds exactly the records it held
\* before, in the same order, each with at most added or updated fields
C23_RecordsKept ==
  (pj_done /\ pj_script = NFL) =>
    \A slot \in 1..4 :
      /\ Len(Held(pj_file)[slot]) = Len(Held(pj_before)[slot])
      /\ \A i \in 1..Len(Held(pj_before)[slot]) :
           SameRecord(Held(pj_before)[slot][i], Held(pj_file)[slot][i])

\* the rows of the file the merge works on, before and after
RowsBefore == to_rows_shape(pj_before).rows
RowsAfter  == to_rows_shape(pj_file).rows

\* the names the salary source and the kickoff sheet hold, as written there
SourceNames(entry, kick) ==
  (IF entry.exists /\ ~(entry.dk = "" /\ entry.fd = "" /\ entry.time = "")
     THEN {<<"B", "o", "b">>} ELSE {})
    \cup (IF kick[<<<<"b", "o", "b">>, "KC">>] # "" THEN {<<"B", "o", "b">>} ELSE {})
    \cup (IF kick[<<<<"a", "l">>, "KC">>] # "" THEN {<<"a", "l">>} ELSE {})

\* C24 as stated: a record is changed only if its lower-cased player name
\* and upper-cased team equal those of a salary or kickoff entry
C24_AsStated ==
  (pj_done /\ pj_script = NFL) =>
    \A i \in 1..Len(RowsBefore) :
      RowsAfter[i] # RowsBefore[i] =>
        \E n \in SourceNames(pj_entry, pj_kick) :
          /\ Lower(RowsBefore[i].player) = Lower(n)
          /\ UpperTeam(RowsBefore[i].team) = "KC"

\* C24: on each record merge_salaries_into_projections changes only dk_sal,
\* DK Sal, fd_sal, FD Sal and time, only for a record whose player name,
\* stripped and lower-cased, and upper-cased team are those of a salary or
\* kickoff entry, and it never replaces a time that is not empty
C24_OnlySalaryKeysOfMatchedRecords ==
  (pj_done /\ pj_script = NFL) =>
    /\ Len(RowsAfter) = Len(RowsBefore)
    /\ \A i \in 1..Len(RowsBefore) :
         LET a == RowsBefore[i]
             b == RowsAfter[i]
         IN  /\ b.player = a.player /\ b.team = a.team /\ b.proj = a.proj /\ b.ids = a.ids
             /\ b # a => \E n \in SourceNames(pj_entry, pj_kick) :
                           /\ Lower(Strip(a.player)) = Lower(Strip(n))
                           /\ UpperTeam(a.team) = "KC"
             /\ a.time # "" => b.time = a.time

\* Bob's record had a time and got the salaries, his time untouched
C24_Witness ==
  /\ pj_done /\ pj_script = NFL
  /\ pj_entry.exists /\ pj_entry.dk = "5000" /\ pj_entry.time = "4:25 PM"
  /\ \E i \in 1..Len(RowsBefore) :
       /\ RowsBefore[i].time = "1:00 PM" /\ RowsBefore[i].player = <<" ", "B", "o", "b">>
       /\ RowsAfter[i].dk_sal = "5000.0" /\ RowsAfter[i].dk_txt = "5,000"
       /\ RowsAfter[i].time = "1:00 PM"
  /\ \E i \in 1..Len(RowsBefore) : RowsAfter[i] = RowsBefore[i]

\* the top-level keys of an object
TopKeys(f) ==
  {k \in {"rows", "players", "data"} :
     (k = "rows" /\ f.rows.isList) \/ (k = "players" /\ f.players.isList)
       \/ (k = "data" /\ f.data.isList)}
    \cup (IF f.extra THEN {"other"} ELSE {})

\* C25: merge_showdown_into_projections writes projections.json back in the
\* container shape it read: an array stays an array, an object with a rows
\* list stays that object, an object with a players list stays that object
\* and gains no top-level key
C25_ShapeKept ==
  (pj_done /\ pj_script = SHOW /\ pj_wrote) =>
    /\ pj_file.type = pj_before.type
    /\ to_rows_shape(pj_before).kind \in {"array", "rows", "players"} =>
         /\ TopKeys(pj_file) = TopKeys(pj_before)
         /\ to_rows_shape(pj_file).kind = to_rows_shape(pj_before).kind

\* ------------------------------------------------------------------------
\* Properties of _atomic_write_json
\* ------------------------------------------------------------------------
AwOver == aw_pc \in {"returned", "raised"}

\* C26 as stated: the destination holds the whole payload or its previous
\* content, a failure leaves it unchanged, and once the call has returned
\* or raised no .tmp_ file remains
C26_AsStated ==
  /\ aw_dest \in {aw_old, FileOf(aw_payload)}
  /\ (AwOver /\ aw_exc) => aw_dest = aw_old
  /\ AwOver => ~aw_tmp.exists

\* C26: at every moment the destination holds the whole payload or its
\* previous content; a call that raises leaves it unchanged, a call that
\* returns leaves the payload in it; a .tmp_ file remains afterwards only
\* if removing it failed
C26_DestinationOldOrNew ==
  /\ aw_dest \in {aw_old, FileOf(aw_payload)}
  /\ (AwOver /\ aw_exc) => aw_dest = aw_old
  /\ (AwOver /\ ~aw_exc) => aw_dest = FileOf(aw_payload)
  /\ (AwOver /\ aw_tmp.exists) => aw_removeFailed

\* the dump failed after part of the payload was written: the destination
\* is what it was and the partial temporary file is gone
C26_Witness ==
  /\ aw_pc = "raised" /\ aw_exc
  /\ Len(aw_payload) = 2 /\ aw_payload[2] = "unserialisable"
  /\ aw_old = FileOf(<<"old">>) /\ aw_dest = aw_old
  /\ ~aw_tmp.exists /\ ~aw_removeFailed

\* ------------------------------------------------------------------------
\* Properties of the salary-sheet readers
\* ------------------------------------------------------------------------
\* C27: no salary-sheet reader emits the sheet's header row as a player
\* record: every record of the list comes from a data row
C27_NoHeaderRecord ==
  sl_done => \A i \in 1..Len(sl_out) : sl_out[i].row # 1

====
